---- MODULE Spec2Model ----
(***************************************************************************)
(* Operational control plane of the stock tracker service:                 *)
(*   lib/rate_limiting.py   RateLimiter, AdaptiveRateLimiter, middleware   *)
(*   lib/service_manager.py ServiceManager, PersistentState, HealthChecker *)
(*   lib/tools.py, lib/tracker.py, lib/config_manager.py   tracker, alerts *)
(* Each component has its own specification (SpecRL, SpecAd, SpecSM,       *)
(* SpecPS, ...); the variables of the other components stay at their       *)
(* initial values.                                                         *)
(***************************************************************************)
EXTENDS Integers, Sequences, FiniteSets, TLC

VARIABLES
    now,              \* time.time(), in clock ticks (TicksPerSecond per second)
    max_requests,     \* RateLimiter.max_requests
    window_seconds,   \* RateLimiter.window_seconds
    requests,         \* RateLimiter.requests: identifier -> deque of admitted instants
    rl_log,           \* history of the decisions is_allowed returned
    in_flight,        \* identifier -> is_allowed calls dispatched, not yet run
    lock,             \* self.lock: identifier whose check holds it, or "none"
    waited,           \* <<b, a>>: a check for b found the lock held by a check for a
    base_limit,         \* AdaptiveRateLimiter.base_limit
    current_multiplier, \* AdaptiveRateLimiter.current_multiplier, in 1/Scale
    load_samples,       \* AdaptiveRateLimiter.load_samples, deque(maxlen=10)
    last_adjustment,    \* AdaptiveRateLimiter.last_adjustment, in clock ticks
    ad_updates,         \* number of update_system_load calls made
    ad_last,            \* what the last update_system_load call saw and did
    mon_pc,             \* monitor_system_load: "ready" to sample, or in its
                        \* "sleep30" or "sleep60"
    is_shutting_down,   \* ServiceManager.is_shutting_down
    shutdown_event,     \* ServiceManager.shutdown_event is set
    cleanup_handlers,   \* ServiceManager.cleanup_handlers
    background_tasks,   \* ServiceManager.background_tasks
    startup_time,       \* ServiceManager.startup_time: 0 is None, n the n-th start()
    signal_handlers,    \* _signal_handler is installed for SIGTERM, SIGINT, SIGHUP
    loop_running,       \* the event loop of the process is running
    scheduled,          \* shutdown() tasks created by _signal_handler, not yet run
    ops,                \* calls made to the ServiceManager and signals delivered
    sd_pc,              \* where the shutdown() that passed the guard is suspended
    sd_i,               \* index of the task or handler it is suspended on
    sd_timed_out,       \* the current wait_for has timed out and cancelled again
    task_status,        \* asyncio task -> running, cancelled, finished, failed
    cancel_req,         \* asyncio task -> a cancellation is pending for it
    swallowed,          \* asyncio task -> it has swallowed a cancellation
    state_file_ok,      \* writing service_state.json succeeds in this run
    sm_log,             \* what the ServiceManager did, in order
    ps_state,           \* PersistentState.state: key -> value, or Absent
    state_file,         \* content of persistent_state.json
    backup_file,        \* content of persistent_state.json.backup
    ps_prev,            \* the call on the PersistentState before the last one
    ps_last,            \* the last call on the PersistentState, and its result
    ps_save,            \* the last run of save_state: what a read gave before
                        \* it, what it had to write, whether it failed
    health_checks,      \* HealthChecker.health_checks: (name, check_func) in
                        \* the order of the dict
    health_status,      \* HealthChecker.health_status
    hc_pc,              \* run_health_checks: "idle", or "await" a check
    hc_i,               \* run_health_checks: position in health_checks
    hc_size,            \* size of the dict when the iteration began
    hc_awaited,         \* the coroutine function whose call is awaited
    hc_results,         \* run_health_checks: results
    hc_outcomes,        \* what each check called did: "true", "false", "raise"
    hc_healthy,         \* run_health_checks: overall_healthy
    hc_last,            \* the last run of run_health_checks that ended
    limiters,           \* the limiters callers consult: limiter -> its fields
    reqs,               \* HTTP request -> where it is in rate_limit_middleware
    wr_last,            \* the last call of a create_rate_limited_endpoint wrapper
    app_path,           \* how the program was started: "none", "lifespan", "test"
    scheduler_running,  \* SchedulerManager.is_running
    state_flushed,      \* persistent_state.save_state() was called on shutdown
    tracker_file,       \* content of resources/tracker_list.json
    stocks_config,      \* ConfigManager.stocks_config: symbol -> its StockConfig
    alert_history,      \* content of resources/alert_history.json
    pipeline_runs,      \* the runs of run_research_pipeline: symbol and day
    today,              \* date.today(), as the number of the day
    tr_ops,             \* tool calls, tracking cycles and midnights so far
    tr_last             \* the last add or remove tool call and what it returned

rlVars == <<now, max_requests, window_seconds, requests, rl_log, in_flight, lock, waited>>
adVars == <<base_limit, current_multiplier, load_samples, last_adjustment,
            ad_updates, ad_last, mon_pc>>

smVars == <<is_shutting_down, shutdown_event, cleanup_handlers, background_tasks,
            startup_time, signal_handlers, loop_running, scheduled, ops,
            sd_pc, sd_i, sd_timed_out, task_status, cancel_req,
            swallowed, state_file_ok, sm_log>>

appVars == <<app_path, scheduler_running, state_flushed>>

trVars == <<tracker_file, stocks_config, alert_history, pipeline_runs, today,
            tr_ops, tr_last>>

psVars == <<ps_state, state_file, backup_file, ps_prev, ps_last, ps_save>>

hcVars == <<health_checks, health_status, hc_pc, hc_i, hc_size, hc_awaited,
            hc_results, hc_outcomes, hc_healthy, hc_last>>

mwVars == <<limiters, reqs, wr_last>>

vars == <<rlVars, adVars, smVars, psVars, hcVars, mwVars, appVars, trVars>>

(***************************************************************************)
(* Bounds of the model                                                     *)
(***************************************************************************)
MaxLimit == 2         \* largest max_requests a limiter is built with
MaxWindow == 2        \* largest window_seconds a limiter is built with
MaxTime == 3          \* seconds the clock of the limiter model runs
MaxChecks == 4        \* is_allowed calls in one behaviour

\* Resolution of the clock: time.time() is fractional, int() truncates it.
TicksPerSecond == 1 + 1

Identifiers == {"A", "B"}

Max(a, b) == IF a >= b THEN a ELSE b
Min(a, b) == IF a <= b THEN a ELSE b

\* int(t) for a time t given in ticks: whole seconds, fraction dropped
IntSec(t) == t \div TicksPerSecond

(***************************************************************************)
(* RateLimiter (lib/rate_limiting.py)                                      *)
(***************************************************************************)

\* while request_times and request_times[0] <= now - window: popleft()
RECURSIVE EvictOld(_, _)
EvictOldEager(request_times, cutoff) ==
    SelectSeq(request_times, LAMBDA x : x > cutoff + 1)
EvictOldKeepAll(request_times, cutoff) == request_times
EvictOld(request_times, cutoff) ==
    IF request_times # <<>> /\ Head(request_times) <= cutoff
    THEN EvictOld(Tail(request_times), cutoff)
    ELSE request_times

\* is_allowed = current_requests < self.max_requests
UnderLimitOffByOne(current_requests, limit) == current_requests <= limit
UnderLimit(current_requests, limit) == current_requests < limit

\* request_times.append(now)
AdmittedNotRecorded(request_times, t) == request_times
Admitted(request_times, t) == Append(request_times, t)

\* remaining = max(0, max_requests - current_requests - (1 if is_allowed else 0))
RemainingBeforeAdmission(limit, current_requests, allowed) ==
    Max(0, limit - current_requests)
Remaining(limit, current_requests, allowed) ==
    Max(0, limit - current_requests - (IF allowed THEN 1 ELSE 0))

\* reset_time = int(now + window_seconds) if request_times else int(now)
ResetTime(request_times, t, window) ==
    IF request_times # <<>> THEN IntSec(t + window * TicksPerSecond) ELSE IntSec(t)

\* whether the block under "async with self.lock" suspends, which is the
\* only way for another coroutine to run while the lock is held: the block
\* contains no await
SuspendsInLockAlways == TRUE
SuspendsInLock == FALSE

\* the holder of self.lock when the event loop next picks a coroutine
HeldAfter(identifier) == IF SuspendsInLock THEN identifier ELSE "none"

\* request_times = self.requests[identifier]: the deque of the identifier
RequestTimesShared(deques, identifier) == deques[CHOOSE i \in Identifiers : TRUE]
RequestTimesOf(deques, identifier) == deques[identifier]

\* is_allowed(identifier), called directly or being the coroutine of a call
\* dispatched earlier: it finds the lock free and, as the block under the
\* lock never suspends, runs through to the release
IsAllowed(identifier) ==
    LET cutoff == now - window_seconds * TicksPerSecond
        kept == EvictOld(RequestTimesOf(requests, identifier), cutoff)
        current_requests == Len(kept)
        is_allowed == UnderLimit(current_requests, max_requests)
        request_times == IF is_allowed THEN Admitted(kept, now) ELSE kept
    IN  /\ Len(rl_log) < MaxChecks
        /\ lock = "none"
        /\ lock' = HeldAfter(identifier)
        /\ UNCHANGED waited
        /\ requests' = [requests EXCEPT ![identifier] = request_times]
        /\ in_flight' = [in_flight EXCEPT ![identifier] = Max(0, @ - 1)]
        /\ rl_log' = Append(rl_log,
              [identifier |-> identifier,
               at |-> now,
               before |-> RequestTimesOf(requests, identifier),
               count |-> current_requests,
               allowed |-> is_allowed,
               limit |-> max_requests,
               remaining |-> Remaining(max_requests, current_requests, is_allowed),
               reset |-> ResetTime(request_times, now, window_seconds)])
        /\ UNCHANGED <<now, max_requests, window_seconds>>
        /\ UNCHANGED <<adVars, smVars, psVars, hcVars, mwVars, appVars, trVars>>

\* the clock advances between calls
Tick ==
    /\ now < MaxTime * TicksPerSecond
    /\ now' = now + 1
    /\ UNCHANGED <<max_requests, window_seconds, requests, rl_log, in_flight, lock, waited>>
    /\ UNCHANGED <<adVars, smVars, psVars, hcVars, mwVars, appVars, trVars>>

\* asyncio tasks of the process, named after what they do when cancelled:
\* "coop" lets CancelledError end it, "stubborn" swallows the first
\* cancellation, "ignore" swallows every cancellation, "fail" raises an error
TaskPool == {"coop", "stubborn", "ignore", "fail"}

\* a ServiceManager just constructed, in a process whose event loop runs
InitSM ==
    /\ is_shutting_down = FALSE
    /\ shutdown_event = FALSE
    /\ cleanup_handlers = <<>>
    /\ background_tasks = <<>>
    /\ startup_time = 0
    /\ signal_handlers = FALSE
    /\ loop_running = TRUE
    /\ scheduled = 0
    /\ ops = 0
    /\ sd_pc = "idle"
    /\ sd_i = 0
    /\ sd_timed_out = FALSE
    /\ task_status = [t \in TaskPool |-> "none"]
    /\ cancel_req = [t \in TaskPool |-> FALSE]
    /\ swallowed = [t \in TaskPool |-> FALSE]
    /\ state_file_ok \in BOOLEAN
    /\ sm_log = <<>>
    /\ app_path = "none"
    /\ scheduler_running = FALSE
    /\ state_flushed = FALSE

\* the limiters callers consult: the two global ones of the middleware and
\* the one a create_rate_limited_endpoint wrapper holds
LimiterNames == {"twilio_rate_limiter", "ip_rate_limiter", "endpoint_limiter"}

\* HTTP requests of one behaviour, in the order they arrive
RequestOrder == <<"r1", "r2", "r3">>
RequestIds == {RequestOrder[k] : k \in 1..Len(RequestOrder)}

\* identifiers a limiter of a caller keeps a window for
CallerIdentifiers == Identifiers \cup {"twilio_webhook"}

NoInfo == [limit |-> 0, remaining |-> 0, reset |-> 0]

NoResponse == [kind |-> "none", status |-> 0, headers |-> {}, info |-> NoInfo,
               retry_after |-> 0]

NewRequest == [pc |-> "new", path |-> "none", limiter |-> "none",
               identifier |-> "none", count |-> 0, allowed |-> "none", calls |-> 0, response |-> NoResponse]

NoWrapperCall == [allowed |-> "none", calls |-> 0, response |-> NoResponse]

\* the callers of the limiters, not in use
IdleMW ==
    /\ limiters = [l \in LimiterNames |->
                    [max_requests |-> 0, window_seconds |-> 0,
                     requests |-> [i \in CallerIdentifiers |-> <<>>]]]
    /\ reqs = [r \in RequestIds |-> NewRequest]
    /\ wr_last = NoWrapperCall

\* names health checks are registered under
HealthNames == {"scheduler", "state_file"}

\* no entry in results
NoEntry == [status |-> "none", error |-> "none"]

NoRun == [kind |-> "none", overall |-> "none",
          checks |-> [n \in HealthNames |-> NoEntry],
          outcomes |-> [n \in HealthNames |-> "none"], names |-> <<>>]

\* HealthChecker(service_manager), just constructed
IdleHC ==
    /\ health_checks = <<>>
    /\ health_status = "unknown"
    /\ hc_pc = "idle"
    /\ hc_i = 0
    /\ hc_size = 0
    /\ hc_awaited = "none"
    /\ hc_results = [n \in HealthNames |-> NoEntry]
    /\ hc_outcomes = [n \in HealthNames |-> "none"]
    /\ hc_healthy = TRUE
    /\ hc_last = NoRun

\* keys of the persistent state
Keys == {"k1", "k2"}

\* no entry under a key
Absent == "absent"

\* a file that does not exist
NoFile == [kind |-> "absent", data |-> [k \in Keys |-> Absent]]

NoCall == [op |-> "none", key |-> "none", value |-> "none", result |-> "none"]

NoSave == [kind |-> "none", prior |-> [k \in Keys |-> Absent],
           new |-> [k \in Keys |-> Absent]]

\* the persistent state, not in use
IdlePS ==
    /\ ps_state = [k \in Keys |-> Absent]
    /\ state_file = NoFile
    /\ backup_file = NoFile
    /\ ps_prev = NoCall
    /\ ps_last = NoCall
    /\ ps_save = NoSave

\* tickers get_stock_price finds a price for; a symbol is a string, kept as
\* the sequence of its characters
Listed == {<<"A">>, <<"B">>}

\* no StockConfig under a symbol; last_alert 0 is None
NoConfig == [present |-> FALSE, last_alert |-> 0]

\* resources/tracker_list.json does not exist
NoTrackerFile == [kind |-> "absent", list |-> <<>>]

NoToolCall == [op |-> "none", raw |-> <<>>, symbol |-> <<>>, result |-> "none",
               before |-> <<>>]

\* the tracker, with no tracker list and no configuration yet
IdleTR ==
    /\ tracker_file = NoTrackerFile
    /\ stocks_config = [s \in Listed |-> NoConfig]
    /\ alert_history = [s \in Listed |-> <<>>]
    /\ pipeline_runs = <<>>
    /\ today = 1
    /\ tr_ops = 0
    /\ tr_last = NoToolCall

\* the adaptive limiter, not in use
IdleAd ==
    /\ base_limit = 0
    /\ current_multiplier = 0
    /\ load_samples = <<>>
    /\ last_adjustment = 0
    /\ ad_updates = 0
    /\ ad_last = [kind |-> "none"]
    /\ mon_pc = "ready"

InitRL ==
    /\ now = 0
    /\ max_requests \in 0..MaxLimit
    /\ window_seconds \in 1..MaxWindow
    /\ requests = [i \in Identifiers |-> <<>>]
    /\ rl_log = <<>>
    /\ in_flight = [i \in Identifiers |-> 0]
    /\ lock = "none"
    /\ waited = {}
    /\ IdleAd
    /\ InitSM
    /\ IdlePS
    /\ IdleHC /\ IdleTR
    /\ IdleMW

NextRL ==
    \/ \E identifier \in Identifiers : IsAllowed(identifier)
    \/ Tick

SpecRL == InitRL /\ [][NextRL]_vars

(***************************************************************************)
(* Claims about RateLimiter                                                *)
(***************************************************************************)
ChecksOf(identifier) == SelectSeq(rl_log, LAMBDA e : e.identifier = identifier)

WindowTicks == window_seconds * TicksPerSecond

\* no check admitted before the k-th check of E has expired when it is made
NoneExpired(E, k) ==
    \A j \in 1..(k - 1) : E[j].allowed => E[j].at > E[k].at - WindowTicks

\* every check admitted before the k-th check of E lies more than the window back
AllElapsed(E, k) ==
    \A j \in 1..(k - 1) : E[j].allowed => E[j].at + WindowTicks < E[k].at

\* C1: with a limit L >= 1, as long as no admitted timestamp of the identifier
\* has expired, its first L checks are admitted and its (L+1)-th is rejected.
C1_LimitThenReject ==
    max_requests >= 1 =>
        \A identifier \in Identifiers :
            LET E == ChecksOf(identifier)
            IN  \A k \in 1..Len(E) :
                    NoneExpired(E, k) =>
                        /\ (k <= max_requests => E[k].allowed)
                        /\ (k = max_requests + 1 => ~E[k].allowed)

C1_Witness ==
    /\ max_requests >= 1
    /\ \E identifier \in Identifiers :
            LET E == ChecksOf(identifier)
            IN  /\ Len(E) >= max_requests + 1
                /\ NoneExpired(E, max_requests + 1)
                /\ E[max_requests].allowed
                /\ ~E[max_requests + 1].allowed

\* C2: an admitted timestamp stops counting once the window has elapsed past
\* it: a check made more than window_seconds after every earlier admission of
\* its identifier is admitted, also after the limit had been exhausted.
C2_ExpiredNoLongerCount ==
    max_requests >= 1 =>
        \A identifier \in Identifiers :
            LET E == ChecksOf(identifier)
            IN  \A k \in 1..Len(E) : AllElapsed(E, k) => E[k].allowed

\* the limit was exhausted (a check was rejected), and a later check, made
\* after the window had elapsed, is admitted again
C2_Witness ==
    /\ max_requests >= 1
    /\ \E identifier \in Identifiers :
            LET E == ChecksOf(identifier)
            IN  \E k \in 1..Len(E) :
                    /\ AllElapsed(E, k)
                    /\ E[k].allowed
                    /\ \E j \in 1..(k - 1) : ~E[j].allowed /\ E[j].count = max_requests

(***************************************************************************)
(* AdaptiveRateLimiter (lib/rate_limiting.py)                              *)
(* current_multiplier is a float; it is kept here in fixed point, in units *)
(* of 1/Scale, products truncated. A load score (cpu + memory) / 2 is kept *)
(* doubled, as cpu + memory, so that it stays a whole number.              *)
(***************************************************************************)
MaxUpdates == 11      \* update_system_load calls in one behaviour

Scale == 1000 * 1000

\* load_samples = deque(maxlen=10)
HistoryCapacity == 10

\* seconds between two adjustments: now - self.last_adjustment > 30
AdjustInterval == 30

\* avg_load > 80, avg_load < 40
HighLoad == 80
LowLoad == 40

\* (cpu_percent, memory_percent) pairs the sampler delivers
LoadInputs == {<<0, 20>>, <<80, 100>>}

\* ticks of the clock between two update_system_load calls: 10 s and 30.5 s
UpdateGaps == {10 * TicksPerSecond, AdjustInterval * TicksPerSecond + 1}

RECURSIVE SumSeq(_)
SumSeq(q) == IF q = <<>> THEN 0 ELSE Head(q) + SumSeq(Tail(q))

\* deque(maxlen=10).append: the oldest sample is dropped once full
AppendBounded(q, x) ==
    IF Len(q) >= HistoryCapacity THEN Append(Tail(q), x) ELSE Append(q, x)

\* load_score = (cpu_percent + memory_percent) / 2, kept doubled
LoadScore(cpu_percent, memory_percent) == cpu_percent + memory_percent

\* avg_load = sum(load_samples) / len(load_samples), compared with a threshold
AvgAbove(samples, pct) == SumSeq(samples) > 2 * pct * Len(samples)
AvgBelow(samples, pct) == SumSeq(samples) < 2 * pct * Len(samples)

\* max(0.5, self.current_multiplier * 0.8)
TightenNoFloor(m) == (m * 8) \div 10
Tighten(m) == Max(Scale \div 2, (m * 8) \div 10)

\* min(2.0, self.current_multiplier * 1.1)
RelaxNoCeiling(m) == (m * 11) \div 10
Relax(m) == Min(2 * Scale, (m * 11) \div 10)

\* the multiplier _adjust_rate_limit leaves, given the samples
AdjustHighOnly(m, samples) ==
    IF samples = <<>> THEN m
    ELSE IF AvgAbove(samples, HighLoad) THEN Tighten(m)
    ELSE m
AdjustedMultiplier(m, samples) ==
    IF samples = <<>> THEN m
    ELSE IF AvgAbove(samples, HighLoad) THEN Tighten(m)
    ELSE IF AvgBelow(samples, LowLoad) THEN Relax(m)
    ELSE m

\* new_limit = int(self.base_limit * self.current_multiplier)
NewLimitRounded(base, m) == (base * m + Scale \div 2) \div Scale
NewLimit(base, m) == (base * m) \div Scale

\* if now - self.last_adjustment > 30
AdjustmentDueOnEverySample(t, last) == t - last > 0
AdjustmentDue(t, last) == t - last > AdjustInterval * TicksPerSecond

\* update_system_load, called gap ticks after the previous clock reading
UpdateSystemLoad(cpu_percent, memory_percent, gap) ==
    LET samples == AppendBounded(load_samples, LoadScore(cpu_percent, memory_percent))
        t == now + gap
        due == AdjustmentDue(t, last_adjustment)
        m == IF due THEN AdjustedMultiplier(current_multiplier, samples)
             ELSE current_multiplier
    IN  /\ ad_updates < MaxUpdates
        /\ ad_updates' = ad_updates + 1
        /\ now' = t
        /\ load_samples' = samples
        /\ current_multiplier' = m
        /\ max_requests' = IF due /\ samples # <<>> THEN NewLimit(base_limit, m)
                           ELSE max_requests
        /\ last_adjustment' = IF due THEN t ELSE last_adjustment
        /\ ad_last' = [kind |-> "update",
                       elapsed |-> t - last_adjustment,
                       samples |-> samples,
                       prev_multiplier |-> current_multiplier,
                       prev_limit |-> max_requests]
        /\ UNCHANGED <<base_limit, window_seconds, requests, rl_log, in_flight, lock, waited>>
        /\ UNCHANGED <<smVars, psVars, hcVars, mwVars, appVars, trVars>>

\* AdaptiveRateLimiter(base_limit, window_seconds), just constructed
InitAd ==
    /\ now = 0
    /\ base_limit = MaxLimit
    /\ window_seconds = MaxWindow
    /\ current_multiplier = Scale
    /\ load_samples = <<>>
    /\ last_adjustment = now
    /\ max_requests = base_limit
    /\ requests = [i \in Identifiers |-> <<>>]
    /\ rl_log = <<>>
    /\ in_flight = [i \in Identifiers |-> 0]
    /\ lock = "none"
    /\ waited = {}
    /\ ad_updates = 0
    /\ ad_last = [kind |-> "none"]
    /\ mon_pc = "ready"
    /\ InitSM
    /\ IdlePS
    /\ IdleHC /\ IdleTR
    /\ IdleMW

NextAd ==
    \E load \in LoadInputs, gap \in UpdateGaps :
        UpdateSystemLoad(load[1], load[2], gap) /\ UNCHANGED mon_pc

SpecAd == InitAd /\ [][NextAd]_vars

(***************************************************************************)
(* Claims about AdaptiveRateLimiter                                        *)
(***************************************************************************)

\* C8: after any sequence of update_system_load calls, whatever the loads and
\* the time gaps, the adaptive multiplier stays within [0.5, 2.0].
C8_MultiplierInRange ==
    /\ current_multiplier >= Scale \div 2
    /\ current_multiplier <= 2 * Scale

\* sustained low load drove the multiplier into the ceiling, which cut it
C8_Witness ==
    /\ ad_last.kind = "update"
    /\ current_multiplier = 2 * Scale
    /\ (ad_last.prev_multiplier * 11) \div 10 > 2 * Scale

\* the multiplier the stated rule gives for the last update_system_load call
RuleMultiplier ==
    IF AvgAbove(ad_last.samples, HighLoad)
    THEN Max(Scale \div 2, (ad_last.prev_multiplier * 8) \div 10)
    ELSE IF AvgBelow(ad_last.samples, LowLoad)
    THEN Min(2 * Scale, (ad_last.prev_multiplier * 11) \div 10)
    ELSE ad_last.prev_multiplier

\* C9 as stated: a sample arriving at least 30 s after the last adjustment
\* applies the rule (mean > 80: max(0.5, m x 0.8); mean < 40: min(2.0, m x 1.1);
\* otherwise unchanged).
C9_AtLeast30 ==
    (ad_last.kind = "update" /\ ad_last.elapsed >= AdjustInterval * TicksPerSecond)
        => current_multiplier = RuleMultiplier

\* C9 amended: a sample arriving more than 30 s after the last adjustment
\* applies the rule.
C9_MoreThan30 ==
    (ad_last.kind = "update" /\ ad_last.elapsed > AdjustInterval * TicksPerSecond)
        => current_multiplier = RuleMultiplier

\* an adjustment that was due and changed the multiplier
C9_Witness ==
    /\ ad_last.kind = "update"
    /\ ad_last.elapsed > AdjustInterval * TicksPerSecond
    /\ AvgAbove(ad_last.samples, HighLoad)
    /\ current_multiplier # ad_last.prev_multiplier
    /\ current_multiplier = (ad_last.prev_multiplier * 8) \div 10

(***************************************************************************)
(* ServiceManager (lib/service_manager.py)                                 *)
(* A coroutine runs without interruption between two awaits that suspend   *)
(* it; _save_service_state never suspends. shutdown() suspends in          *)
(* asyncio.wait_for and in a cleanup handler that is a coroutine function. *)
(***************************************************************************)
\* calls of add_cleanup_handler, add_background_task, start and shutdown, and
\* signals delivered, in one behaviour
MaxOps == 4

\* cleanup handlers: a function that returns, a function that raises, and a
\* coroutine function, which suspends and then returns or raises
HandlerPool == {"hOk", "hRaise", "hAsync"}

Event(ev, arg, ok) == [ev |-> ev, arg |-> arg, ok |-> ok]

\* _save_service_state(state): a write that fails is logged and swallowed
SaveServiceState(log, state) == Append(log, Event("save", state, state_file_ok))

\* task.done()
Done(t) == task_status[t] # "running"

\* _cancel_background_tasks from the i-th task on, up to the wait_for that
\* suspends it or to its end
RECURSIVE CancelBackgroundTasks(_, _)
CancelBackgroundTasks(i, log) ==
    IF i > Len(background_tasks)
    THEN [pc |-> "cleanup", i |-> 0, cancel |-> {},
          log |-> Append(log, Event("tasks_done", background_tasks, TRUE))]
    ELSE IF Done(background_tasks[i])
    THEN CancelBackgroundTasks(i + 1, Append(log, Event("skip", background_tasks[i], TRUE)))
    ELSE [pc |-> "wait", i |-> i, cancel |-> {background_tasks[i]},
          log |-> Append(log, Event("cancel", background_tasks[i], TRUE))]

\* _run_cleanup_handlers from the j-th handler on, up to the coroutine handler
\* that suspends it or to its end; inline: nothing else runs (asyncio.run),
\* the coroutine handler then raising or not as async_raises says
RECURSIVE RunCleanupHandlers(_, _, _, _)
RunCleanupHandlersAbortOnError(j, log, inline, async_raises) ==
    IF j > Len(cleanup_handlers)
    THEN [pc |-> "final", i |-> 0,
          log |-> Append(log, Event("handlers_done", cleanup_handlers, TRUE))]
    ELSE LET h == cleanup_handlers[j]
             invoked == Append(log, Event("handler", h, TRUE))
         IN  IF h = "hAsync" /\ ~inline
             THEN [pc |-> "handler", i |-> j, log |-> invoked]
             ELSE IF h = "hRaise" \/ (h = "hAsync" /\ async_raises)
             THEN [pc |-> "final", i |-> 0,
                   log |-> Append(Append(invoked, Event("handler_error", h, TRUE)),
                                  Event("handlers_done", cleanup_handlers, TRUE))]
             ELSE RunCleanupHandlers(j + 1, invoked, inline, async_raises)
RunCleanupHandlers(j, log, inline, async_raises) ==
    IF j > Len(cleanup_handlers)
    THEN [pc |-> "final", i |-> 0,
          log |-> Append(log, Event("handlers_done", cleanup_handlers, TRUE))]
    ELSE LET h == cleanup_handlers[j]
             invoked == Append(log, Event("handler", h, TRUE))
         IN  IF h = "hAsync" /\ ~inline
             THEN [pc |-> "handler", i |-> j, log |-> invoked]
             ELSE IF h = "hRaise" \/ (h = "hAsync" /\ async_raises)
             THEN RunCleanupHandlers(j + 1,
                      Append(invoked, Event("handler_error", h, TRUE)),
                      inline, async_raises)
             ELSE RunCleanupHandlers(j + 1, invoked, inline, async_raises)

\* shutdown() from the j-th cleanup handler on: the handlers, then "stopped"
ShutdownFromHandler(j, log, inline, async_raises) ==
    LET r == RunCleanupHandlers(j, log, inline, async_raises)
    IN  IF r.pc = "handler"
        THEN [pc |-> "handler", i |-> r.i, cancel |-> {}, log |-> r.log]
        ELSE [pc |-> "done", i |-> 0, cancel |-> {},
              log |-> SaveServiceState(r.log, "stopped")]

\* shutdown() from the i-th background task on
ShutdownFromTaskNoWait(i, log, inline, async_raises) ==
    ShutdownFromHandler(1, CancelBackgroundTasks(i, log).log, inline, async_raises)
ShutdownFromTask(i, log, inline, async_raises) ==
    LET c == CancelBackgroundTasks(i, log)
    IN  IF c.pc = "wait" THEN c
        ELSE ShutdownFromHandler(1, c.log, inline, async_raises)

\* the cleanup handlers of the program shutdown() has invoked on its way from
\* the log of the state to log
NewlyInvoked(log) ==
    {log[k].arg : k \in {j \in (Len(sm_log) + 1)..Len(log) : log[j].ev = "handler"}}

\* the shutdown() coroutine moves on to where r says; cleanup_scheduler calls
\* scheduler_manager.stop(), cleanup_resources persistent_state.save_state()
Resume(r) ==
    /\ scheduler_running' =
            (scheduler_running /\ "cleanup_scheduler" \notin NewlyInvoked(r.log))
    /\ state_flushed' =
            (state_flushed \/ "cleanup_resources" \in NewlyInvoked(r.log))
    /\ sd_pc' = r.pc
    /\ sd_i' = r.i
    /\ sm_log' = r.log
    /\ cancel_req' = [t \in TaskPool |-> cancel_req[t] \/ t \in r.cancel]
    /\ sd_timed_out' = FALSE

\* if self.is_shutting_down: return
AlreadyShuttingDownNoGuard == FALSE
AlreadyShuttingDown == is_shutting_down

\* shutdown(), from its call to its first suspension or its end
Shutdown(source, inline, async_raises) ==
    IF AlreadyShuttingDown
    THEN /\ sm_log' = Append(sm_log, Event("noop", source, TRUE))
         /\ UNCHANGED <<is_shutting_down, shutdown_event, sd_pc, sd_i,
                        sd_timed_out, cancel_req, scheduler_running, state_flushed>>
    ELSE /\ is_shutting_down' = TRUE
         /\ shutdown_event' = TRUE
         /\ Resume(ShutdownFromTask(1,
                Append(SaveServiceState(Append(sm_log, Event("begin", source, TRUE)),
                                        "shutting_down"),
                       Event("event_set", source, TRUE)),
                inline, async_raises))

AddCleanupHandler(handler) ==
    /\ ops < MaxOps
    /\ ops' = ops + 1
    /\ cleanup_handlers' = Append(cleanup_handlers, handler)
    /\ UNCHANGED <<is_shutting_down, shutdown_event, background_tasks, startup_time,
                   signal_handlers, loop_running, scheduled, sd_pc, sd_i,
                   sd_timed_out, task_status, cancel_req, swallowed, sm_log>>
    /\ UNCHANGED <<rlVars, adVars, psVars, hcVars, mwVars, state_file_ok, appVars, trVars>>

\* asyncio.create_task(...) where the task is new, then add_background_task(task)
AddBackgroundTask(task) ==
    /\ ops < MaxOps
    /\ ops' = ops + 1
    /\ task_status[task] = "none" => loop_running
    /\ task_status' = [task_status EXCEPT
                         ![task] = IF @ = "none" THEN "running" ELSE @]
    /\ background_tasks' = Append(background_tasks, task)
    /\ UNCHANGED <<is_shutting_down, shutdown_event, cleanup_handlers, startup_time,
                   signal_handlers, loop_running, scheduled, sd_pc, sd_i,
                   sd_timed_out, cancel_req, swallowed, sm_log>>
    /\ UNCHANGED <<rlVars, adVars, psVars, hcVars, mwVars, state_file_ok, appVars, trVars>>

Start ==
    /\ ops < MaxOps
    /\ ops' = ops + 1
    /\ loop_running
    /\ startup_time' = startup_time + 1
    /\ signal_handlers' = TRUE
    /\ sm_log' = SaveServiceState(SaveServiceState(sm_log, "starting"), "running")
    /\ UNCHANGED <<is_shutting_down, shutdown_event, cleanup_handlers,
                   background_tasks, loop_running, scheduled, sd_pc, sd_i,
                   sd_timed_out, task_status, cancel_req, swallowed>>
    /\ UNCHANGED <<rlVars, adVars, psVars, hcVars, mwVars, state_file_ok, appVars, trVars>>

\* await service_manager.shutdown() by the lifespan exit or by main()
ShutdownCall ==
    /\ ops < MaxOps
    /\ ops' = ops + 1
    /\ loop_running
    /\ Shutdown("call", FALSE, FALSE)
    /\ UNCHANGED <<cleanup_handlers, background_tasks, startup_time, signal_handlers,
                   loop_running, scheduled, task_status, swallowed>>
    /\ UNCHANGED <<rlVars, adVars, psVars, hcVars, mwVars, state_file_ok, app_path, trVars>>

\* the event loop runs a task that _signal_handler created
ShutdownScheduled ==
    /\ loop_running
    /\ scheduled > 0
    /\ scheduled' = scheduled - 1
    /\ Shutdown("signal", FALSE, FALSE)
    /\ UNCHANGED <<cleanup_handlers, background_tasks, startup_time, signal_handlers,
                   loop_running, ops, task_status, swallowed>>
    /\ UNCHANGED <<rlVars, adVars, psVars, hcVars, mwVars, state_file_ok, app_path, trVars>>

\* loop.is_running()
LoopIsRunningNever == FALSE
LoopIsRunning == loop_running

\* _signal_handler: loop.create_task(self.shutdown()) if the loop is running,
\* else asyncio.run(self.shutdown())
SignalHandler(async_raises) ==
    /\ ops < MaxOps
    /\ ops' = ops + 1
    /\ signal_handlers
    /\ IF LoopIsRunning
       THEN /\ scheduled' = scheduled + 1
            /\ UNCHANGED <<is_shutting_down, shutdown_event, sd_pc, sd_i,
                           sd_timed_out, cancel_req, sm_log, scheduler_running,
                           state_flushed>>
       ELSE /\ Shutdown("signal", TRUE, async_raises)
            /\ UNCHANGED scheduled
    /\ UNCHANGED <<cleanup_handlers, background_tasks, startup_time, signal_handlers,
                   loop_running, task_status, swallowed>>
    /\ UNCHANGED <<rlVars, adVars, psVars, hcVars, mwVars, state_file_ok, app_path, trVars>>

\* a task whose cancellation is pending runs: CancelledError is thrown into it
TaskStep(task) ==
    /\ loop_running
    /\ task_status[task] = "running"
    /\ cancel_req[task]
    /\ cancel_req' = [cancel_req EXCEPT ![task] = FALSE]
    /\ task_status' = [task_status EXCEPT ![task] =
            IF task = "coop" THEN "cancelled"
            ELSE IF task = "fail" THEN "failed"
            ELSE IF task = "stubborn" /\ swallowed[task] THEN "cancelled"
            ELSE "running"]
    /\ swallowed' = [swallowed EXCEPT ![task] = @ \/ task \in {"stubborn", "ignore"}]
    /\ UNCHANGED <<is_shutting_down, shutdown_event, cleanup_handlers,
                   background_tasks, startup_time, signal_handlers, loop_running,
                   scheduled, ops, sd_pc, sd_i, sd_timed_out, sm_log>>
    /\ UNCHANGED <<rlVars, adVars, psVars, hcVars, mwVars, state_file_ok, appVars, trVars>>

\* a task returns by itself: "coop" at any time, "stubborn" after it has
\* swallowed a cancellation
TaskFinish(task) ==
    /\ loop_running
    /\ task_status[task] = "running"
    /\ ~cancel_req[task]
    /\ task = "coop" \/ (task = "stubborn" /\ swallowed[task])
    /\ task_status' = [task_status EXCEPT ![task] = "finished"]
    /\ UNCHANGED <<is_shutting_down, shutdown_event, cleanup_handlers,
                   background_tasks, startup_time, signal_handlers, loop_running,
                   scheduled, ops, sd_pc, sd_i, sd_timed_out, cancel_req, swallowed,
                   sm_log>>
    /\ UNCHANGED <<rlVars, adVars, psVars, hcVars, mwVars, state_file_ok, appVars, trVars>>

\* asyncio.wait_for(task, timeout=5.0) reaches its timeout with the task not
\* done (the cancellation of line 106 was thrown into it long before): it
\* cancels the task again and goes on waiting until the task is done
WaitTimesOut ==
    /\ loop_running
    /\ sd_pc = "wait"
    /\ ~sd_timed_out
    /\ ~Done(background_tasks[sd_i])
    /\ ~cancel_req[background_tasks[sd_i]]
    /\ sd_timed_out' = TRUE
    /\ cancel_req' = [cancel_req EXCEPT ![background_tasks[sd_i]] = TRUE]
    /\ sm_log' = Append(sm_log, Event("timeout", background_tasks[sd_i], TRUE))
    /\ UNCHANGED <<is_shutting_down, shutdown_event, cleanup_handlers,
                   background_tasks, startup_time, signal_handlers, loop_running,
                   scheduled, ops, sd_pc, sd_i, task_status, swallowed>>
    /\ UNCHANGED <<rlVars, adVars, psVars, hcVars, mwVars, state_file_ok, appVars, trVars>>

\* what wait_for(task) raises or returns once the task is done
WaitOutcome(status, timed_out) ==
    IF status = "cancelled"
    THEN (IF timed_out THEN "TimeoutError" ELSE "CancelledError")
    ELSE IF status = "failed" THEN "Exception"
    ELSE "returned"

\* the task waited for is done: wait_for ends, its exception is caught, and
\* shutdown() goes on with the next task
WaitReturns ==
    /\ loop_running
    /\ sd_pc = "wait"
    /\ Done(background_tasks[sd_i])
    /\ Resume(ShutdownFromTask(sd_i + 1,
            Append(sm_log,
                   Event(WaitOutcome(task_status[background_tasks[sd_i]], sd_timed_out),
                         background_tasks[sd_i], TRUE)),
            FALSE, FALSE))
    /\ UNCHANGED <<is_shutting_down, shutdown_event, cleanup_handlers,
                   background_tasks, startup_time, signal_handlers, loop_running,
                   scheduled, ops, task_status, swallowed>>
    /\ UNCHANGED <<rlVars, adVars, psVars, hcVars, mwVars, state_file_ok, app_path, trVars>>

\* the coroutine cleanup handler awaited returns or raises; shutdown() goes on
HandlerReturns(raises) ==
    /\ loop_running
    /\ sd_pc = "handler"
    /\ Resume(ShutdownFromHandler(sd_i + 1,
            IF raises
            THEN Append(sm_log, Event("handler_error", cleanup_handlers[sd_i], TRUE))
            ELSE sm_log,
            FALSE, FALSE))
    /\ UNCHANGED <<is_shutting_down, shutdown_event, cleanup_handlers,
                   background_tasks, startup_time, signal_handlers, loop_running,
                   scheduled, ops, task_status, swallowed>>
    /\ UNCHANGED <<rlVars, adVars, psVars, hcVars, mwVars, state_file_ok, app_path, trVars>>

\* the event loop ends (asyncio.run returns): the tasks still pending are
\* cancelled and awaited, tasks created but never run are dropped
LoopStops ==
    /\ loop_running
    /\ sd_pc \in {"idle", "done"}
    /\ \A t \in TaskPool : task_status[t] = "running" => t \in {"coop", "fail"}
    /\ loop_running' = FALSE
    /\ scheduled' = 0
    /\ task_status' = [t \in TaskPool |->
            IF task_status[t] # "running" THEN task_status[t]
            ELSE IF t = "fail" THEN "failed" ELSE "cancelled"]
    /\ cancel_req' = [t \in TaskPool |-> FALSE]
    /\ UNCHANGED <<is_shutting_down, shutdown_event, cleanup_handlers,
                   background_tasks, startup_time, signal_handlers, ops, sd_pc,
                   sd_i, sd_timed_out, swallowed, sm_log>>
    /\ UNCHANGED <<rlVars, adVars, psVars, hcVars, mwVars, state_file_ok, appVars, trVars>>

\* the limiters, not in use
IdleRL ==
    /\ now = 0
    /\ max_requests = 0
    /\ window_seconds = 0
    /\ requests = [i \in Identifiers |-> <<>>]
    /\ rl_log = <<>>
    /\ in_flight = [i \in Identifiers |-> 0]
    /\ lock = "none"
    /\ waited = {}

InitSMSpec == InitSM /\ IdleRL /\ IdleAd /\ IdlePS /\ IdleHC /\ IdleTR /\ IdleMW

NextSM ==
    \/ \E handler \in HandlerPool : AddCleanupHandler(handler)
    \/ \E task \in TaskPool : AddBackgroundTask(task)
    \/ Start
    \/ ShutdownCall
    \/ ShutdownScheduled
    \/ \E async_raises \in BOOLEAN : SignalHandler(async_raises)
    \/ \E task \in TaskPool : TaskStep(task)
    \/ \E task \in TaskPool : TaskFinish(task)
    \/ WaitTimesOut
    \/ WaitReturns
    \/ \E raises \in BOOLEAN : HandlerReturns(raises)
    \/ LoopStops

SpecSM == InitSMSpec /\ [][NextSM]_vars

\* the scheduling of the event loop: a task that is ready runs, a timeout that
\* is due fires, a coroutine that can resume resumes
FairSpecSM ==
    /\ SpecSM
    /\ WF_vars(ShutdownScheduled)
    /\ WF_vars(\E task \in TaskPool : TaskStep(task))
    /\ WF_vars(WaitTimesOut)
    /\ WF_vars(WaitReturns)
    /\ WF_vars(\E raises \in BOOLEAN : HandlerReturns(raises))

\* is_running()
IsRunningOnceStarted == startup_time > 0 /\ ~is_shutting_down
IsRunning == ~is_shutting_down /\ ~shutdown_event

(***************************************************************************)
(* Claims about ServiceManager                                             *)
(***************************************************************************)
EvIdx(evs) == {k \in 1..Len(sm_log) : sm_log[k].ev \in evs}

SaveIdx(state) ==
    {k \in 1..Len(sm_log) : sm_log[k].ev = "save" /\ sm_log[k].arg = state}

\* the arguments of the events of the given kinds, in the order logged
ArgsOf(evs) ==
    LET sel == SelectSeq(sm_log, LAMBDA e : e.ev \in evs)
    IN  [k \in 1..Len(sel) |-> sel[k].arg]

IsPrefix(p, q) == Len(p) <= Len(q) /\ \A k \in 1..Len(p) : p[k] = q[k]

WaitEnds == {"CancelledError", "TimeoutError", "Exception", "returned"}

\* the tasks _cancel_background_tasks has dealt with, in order
TasksVisited == ArgsOf({"skip"} \cup WaitEnds)

\* the cleanup handlers invoked, in order
HandlersInvoked == ArgsOf({"handler"})

\* C3: however many calls of shutdown() are made (direct, by the lifespan
\* exit, scheduled by signals), the shutdown sequence runs exactly once: one
\* call passes the guard, SHUTTING_DOWN and STOPPED are each saved at most
\* once, no task is cancelled twice, no handler runs twice; every other call
\* is a no-op.
C3_ShutdownOnce ==
    /\ Cardinality(EvIdx({"begin"})) <= 1
    /\ EvIdx({"noop"}) # {} => Cardinality(EvIdx({"begin"})) = 1
    /\ Cardinality(SaveIdx("shutting_down")) <= 1
    /\ Cardinality(SaveIdx("stopped")) <= 1
    /\ Cardinality(EvIdx({"event_set"})) <= 1
    /\ IsPrefix(ArgsOf({"skip", "cancel"}), background_tasks)
    /\ IsPrefix(HandlersInvoked, cleanup_handlers)

\* a second call arrived while the sequence was in progress, and the
\* sequence has completed, having run a handler
C3_Witness ==
    /\ sd_pc = "done"
    /\ HandlersInvoked # <<>>
    /\ \E k \in EvIdx({"noop"}) : \E s \in SaveIdx("stopped") : k < s

\* the step of shutdown() an event belongs to; 0: not a step of shutdown()
Phase(e) ==
    IF e.ev = "save" THEN
        (IF e.arg = "shutting_down" THEN 1 ELSE IF e.arg = "stopped" THEN 7 ELSE 0)
    ELSE IF e.ev = "event_set" THEN 2
    ELSE IF e.ev \in {"skip", "cancel", "timeout"} \cup WaitEnds THEN 3
    ELSE IF e.ev = "tasks_done" THEN 4
    ELSE IF e.ev \in {"handler", "handler_error"} THEN 5
    ELSE IF e.ev = "handlers_done" THEN 6
    ELSE 0

\* C4: shutdown() saves SHUTTING_DOWN, then sets the shutdown event, then
\* cancels and waits for each registered background task, then runs the
\* cleanup handlers, then saves STOPPED: no handler runs before every task
\* registered by then is done (finished, cancelled, failed or timed out),
\* and STOPPED is saved only after the last handler.
C4_ShutdownOrder ==
    /\ \A k, l \in 1..Len(sm_log) :
            (k < l /\ Phase(sm_log[k]) > 0 /\ Phase(sm_log[l]) > 0)
                => Phase(sm_log[k]) <= Phase(sm_log[l])
    /\ EvIdx({"event_set"}) # {} => SaveIdx("shutting_down") # {}
    /\ EvIdx({"skip", "cancel"}) # {} => EvIdx({"event_set"}) # {}
    /\ EvIdx({"handler", "handlers_done"}) # {} => EvIdx({"tasks_done"}) # {}
    /\ \A k \in EvIdx({"tasks_done"}) :
            /\ TasksVisited = sm_log[k].arg
            /\ \A i \in 1..Len(sm_log[k].arg) : Done(sm_log[k].arg[i])
    /\ SaveIdx("stopped") # {} => EvIdx({"handlers_done"}) # {}
    /\ \A k \in EvIdx({"handlers_done"}) : HandlersInvoked = sm_log[k].arg

\* a completed shutdown that had to wait for a task and ran a handler
C4_Witness ==
    /\ sd_pc = "done"
    /\ EvIdx(WaitEnds) # {}
    /\ EvIdx({"skip"}) # {}
    /\ HandlersInvoked # <<>>

\* C5: shutdown invokes every registered cleanup handler, in registration
\* order; a handler that raises prevents neither the handlers registered
\* after it nor the save of STOPPED.
C5_HandlersIsolated ==
    /\ IsPrefix(HandlersInvoked, cleanup_handlers)
    /\ \A k \in EvIdx({"handlers_done"}) : HandlersInvoked = sm_log[k].arg
    /\ EvIdx({"tasks_done"}) # {} =>
            \/ sd_pc = "handler" /\ Len(HandlersInvoked) = sd_i
            \/ /\ sd_pc = "done"
               /\ EvIdx({"handlers_done"}) # {}
               /\ \E k \in SaveIdx("stopped") : sm_log[k].ok = state_file_ok

\* a handler raised, a handler registered after it ran, STOPPED was saved
C5_Witness ==
    /\ sd_pc = "done"
    /\ state_file_ok
    /\ \E k \in EvIdx({"handler_error"}) : \E l \in EvIdx({"handler"}) : k < l

\* C6: once shutdown() has started it saves STOPPED and returns, whatever the
\* registered background tasks do.
C6_ShutdownCompletes == is_shutting_down ~> sd_pc = "done"

\* the states saved to the service state file, in order
Persisted ==
    LET sel == SelectSeq(sm_log, LAMBDA e : e.ev = "save" /\ e.ok)
    IN  [k \in 1..Len(sel) |-> sel[k].arg]

Rank(state) ==
    IF state = "starting" THEN 1
    ELSE IF state = "running" THEN 2
    ELSE IF state = "shutting_down" THEN 3
    ELSE 4

\* C7: over any sequence of start(), shutdown() and signal deliveries the
\* saved states only move forward along STARTING -> RUNNING -> SHUTTING_DOWN
\* -> STOPPED: no state is saved after a later one.
C7_ForwardOnly ==
    \A k, l \in 1..Len(Persisted) :
        k < l => Rank(Persisted[k]) <= Rank(Persisted[l])

(***************************************************************************)
(* PersistentState (lib/service_manager.py)                                *)
(* Files are those of a POSIX system: os.rename replaces its destination.  *)
(***************************************************************************)
\* values given to set: a string, a tuple, an object json cannot serialize
Values == {"a", "tuple", "obj"}

\* defaults given to get; "None" is the default of the parameter
Defaults == {"None", "dflt"}

\* the step of save_state that fails, if any: os.rename of the state file to
\* the backup, open(state_file, 'w'), the writes of json.dump
SaveFaults == {"none", "rename", "open", "write"}

\* a state file cut short: opened for writing, json.dump not completed
Truncated == [kind |-> "corrupt", data |-> [k \in Keys |-> Absent]]

JsonFile(m) == [kind |-> "json", data |-> m]

\* os.path.exists
Exists(f) == f.kind # "absent"

\* json.dump raises TypeError on the object
Serializable(m) == \A k \in Keys : m[k] # "obj"

\* json.dump(self.state, f): a tuple is written as an array, which json.load
\* reads back as a list
JsonDump(m) == [k \in Keys |-> IF m[k] = "tuple" THEN "list" ELSE m[k]]

\* load_state: no file, or a file json.load fails on, gives the empty state
LoadedState(f) == IF f.kind = "json" THEN f.data ELSE [k \in Keys |-> Absent]

\* what json.load raises on the file
ParseError(f) == IF f.kind = "corrupt" THEN "JSONDecodeError" ELSE "none"

\* load_state() called with self.state = state: the state it leaves and the
\* exception it lets through; its except branch catches what the try block
\* raises and sets the empty state
LoadOutcomeNoExcept(f, state) ==
    IF ParseError(f) # "none"
    THEN [state |-> state, raised |-> ParseError(f)]
    ELSE [state |-> LoadedState(f), raised |-> "none"]
LoadOutcome(f, state) ==
    IF ParseError(f) # "none"
    THEN [state |-> [k \in Keys |-> Absent], raised |-> "none"]
    ELSE [state |-> LoadedState(f), raised |-> "none"]

\* the except branch of save_state: the backup, if there is one, is renamed
\* to the state file
RestoreBackup(primary, backup) ==
    IF Exists(backup)
    THEN [state_file |-> backup, backup_file |-> NoFile]
    ELSE [state_file |-> primary, backup_file |-> backup]

\* save_state(): the files it leaves, m being self.state
SaveState(m, fault) ==
    LET renamed == Exists(state_file)
        backup == IF renamed THEN state_file ELSE backup_file
    IN  IF renamed /\ fault = "rename"
        THEN RestoreBackup(state_file, backup_file)
        ELSE IF fault = "open"
        THEN RestoreBackup(NoFile, backup)
        ELSE IF fault = "write" \/ ~Serializable(m)
        THEN RestoreBackup(Truncated, backup)
        ELSE [state_file |-> JsonFile(JsonDump(m)), backup_file |-> backup]

Call(op, key, value, result) ==
    [op |-> op, key |-> key, value |-> value, result |-> result]

Saved(m, fault, call) ==
    /\ ps_state' = m
    /\ state_file' = SaveState(m, fault).state_file
    /\ backup_file' = SaveState(m, fault).backup_file
    /\ ps_prev' = ps_last
    /\ ps_last' = call
    /\ ps_save' = [kind |-> IF SaveState(m, fault).state_file = JsonFile(JsonDump(m))
                            THEN "saved" ELSE "failed",
                   prior |-> LoadedState(state_file), new |-> JsonDump(m)]
    /\ UNCHANGED <<rlVars, adVars, smVars, hcVars, mwVars, appVars, trVars>>

\* self.state[key] = value
StoredNothing(m, key, value) == m
Stored(m, key, value) == [m EXCEPT ![key] = value]

\* set(key, value)
Set(key, value, fault) ==
    Saved(Stored(ps_state, key, value), fault, Call("set", key, value, "None"))

\* get(key, default)
Get(key, default) ==
    /\ ps_prev' = ps_last
    /\ ps_last' = Call("get", key, default,
                       IF ps_state[key] = Absent THEN default ELSE ps_state[key])
    /\ UNCHANGED <<ps_state, state_file, backup_file, ps_save>>
    /\ UNCHANGED <<rlVars, adVars, smVars, hcVars, mwVars, appVars, trVars>>

\* delete(key): nothing is done, and nothing saved, if the key is not there
Delete(key, fault) ==
    IF ps_state[key] # Absent
    THEN Saved([ps_state EXCEPT ![key] = Absent], fault,
               Call("delete", key, "None", "None"))
    ELSE /\ ps_prev' = ps_last
         /\ ps_last' = Call("delete", key, "None", "None")
         /\ UNCHANGED <<ps_state, state_file, backup_file, ps_save>>
         /\ UNCHANGED <<rlVars, adVars, smVars, hcVars, mwVars, appVars, trVars>>

\* clear()
Clear(fault) ==
    Saved([k \in Keys |-> Absent], fault, Call("clear", "none", "None", "None"))

\* load_state(), as at the construction of a PersistentState on the same file
LoadState ==
    /\ ps_state' = LoadOutcome(state_file, ps_state).state
    /\ ps_prev' = ps_last
    /\ ps_last' = Call("load", "none", "None",
                       IF LoadOutcome(state_file, ps_state).raised = "none"
                       THEN "None" ELSE LoadOutcome(state_file, ps_state).raised)
    /\ UNCHANGED <<state_file, backup_file, ps_save>>
    /\ UNCHANGED <<rlVars, adVars, smVars, hcVars, mwVars, appVars, trVars>>

\* where a process can be killed inside save_state: after the rename of the
\* state file to the backup, or after open(state_file, 'w') has cut the file
\* and before json.dump has completed
KillPoints == {"renamed", "opened"}

\* the files save_state leaves when the process is killed inside it: no
\* except branch runs
KilledSave(point) ==
    [state_file |-> IF point = "renamed" /\ Exists(state_file) THEN NoFile
                    ELSE IF point = "renamed" THEN state_file
                    ELSE Truncated,
     backup_file |-> IF Exists(state_file) THEN state_file ELSE backup_file]

\* set(key, value) by a process that is killed inside save_state, and the
\* PersistentState() of the process started after it, which runs load_state
SetKilled(key, value, point) ==
    /\ state_file' = KilledSave(point).state_file
    /\ backup_file' = KilledSave(point).backup_file
    /\ ps_state' = LoadedState(KilledSave(point).state_file)
    /\ ps_prev' = ps_last
    /\ ps_last' = Call("killed", key, value, "None")
    /\ ps_save' = [kind |-> "killed", prior |-> LoadedState(state_file),
                   new |-> JsonDump(Stored(ps_state, key, value))]
    /\ UNCHANGED <<rlVars, adVars, smVars, hcVars, mwVars, appVars, trVars>>

\* PersistentState(), just constructed: there is no state file, or the one an
\* earlier run left, whole or cut short
InitPS ==
    /\ state_file \in {NoFile, Truncated,
                       JsonFile([k \in Keys |-> IF k = "k1" THEN "a" ELSE Absent])}
    /\ backup_file = NoFile
    /\ ps_state = LoadedState(state_file)
    /\ ps_prev = NoCall
    /\ ps_last = NoCall
    /\ ps_save = NoSave
    /\ InitSM
    /\ state_file_ok
    /\ IdleRL
    /\ IdleAd
    /\ IdleHC /\ IdleTR
    /\ IdleMW

NextPS ==
    \/ \E key \in Keys, value \in Values, fault \in SaveFaults : Set(key, value, fault)
    \/ \E key \in Keys, default \in Defaults : Get(key, default)
    \/ \E key \in Keys, fault \in SaveFaults : Delete(key, fault)
    \/ \E fault \in SaveFaults : Clear(fault)
    \/ LoadState
    \/ \E key \in Keys, value \in Values, point \in KillPoints :
            SetKilled(key, value, point)

SpecPS == InitPS /\ [][NextPS]_vars

(***************************************************************************)
(* Claims about PersistentState                                            *)
(***************************************************************************)

\* C10: for any key and value, set(key, value) immediately followed by
\* get(key) returns value; and delete(key) followed by get(key, default)
\* returns default.
C10_SetGetDelete ==
    /\ (ps_last.op = "get" /\ ps_prev.op = "set" /\ ps_prev.key = ps_last.key)
            => ps_last.result = ps_prev.value
    /\ (ps_last.op = "get" /\ ps_prev.op = "delete" /\ ps_prev.key = ps_last.key)
            => ps_last.result = ps_last.value

\* a set whose save failed, the state file not holding the value, and the
\* get after it
C10_Witness ==
    /\ ps_prev.op = "set"
    /\ ps_last.op = "get"
    /\ ps_last.key = ps_prev.key
    /\ ps_last.result = ps_prev.value
    /\ ps_last.result # ps_last.value
    /\ state_file.data[ps_last.key] # JsonDump(ps_state)[ps_last.key]

\* C11: if a save of the persistent state is interrupted or fails at any
\* step (the rename to the backup, the open, the write), a read of the state
\* file afterwards gives the complete state as of just before that save or
\* the complete new state.
C11_PriorOrNew ==
    ps_save.kind \in {"failed", "killed"}
        => LoadedState(state_file) \in {ps_save.prior, ps_save.new}

\* C12: whenever set(key, value) has returned, the state file holds value
\* under key: a PersistentState constructed on it returns value for get(key).
C12_SetDurable ==
    ps_last.op = "set" => LoadedState(state_file)[ps_last.key] = ps_last.value

(***************************************************************************)
(* HealthChecker (lib/service_manager.py)                                  *)
(* run_health_checks suspends only where it awaits a check that is a       *)
(* coroutine function; one run is followed from its call to its end.       *)
(***************************************************************************)
\* check functions: plain functions that return a true value, return a false
\* value or raise an Exception, and coroutine functions that do so
CheckFuncs == {"true", "false", "raises", "asyncTrue", "asyncFalse", "asyncRaises"}

\* asyncio.iscoroutinefunction(check_func)
IsCoroutineFunction(func) == func \in {"asyncTrue", "asyncFalse", "asyncRaises"}

\* what a call of the check does
Outcome(func) ==
    IF func \in {"true", "asyncTrue"} THEN "true"
    ELSE IF func \in {"false", "asyncFalse"} THEN "false"
    ELSE "raise"

\* results[name] for a check that did so
Entry(outcome) ==
    IF outcome = "true" THEN [status |-> "healthy", error |-> "none"]
    ELSE IF outcome = "false" THEN [status |-> "unhealthy", error |-> "none"]
    ELSE [status |-> "error", error |-> "str(e)"]

\* overall_healthy after a check that did so
HealthyAfterIgnoringErrors(healthy, outcome) == healthy /\ outcome # "false"
HealthyAfter(healthy, outcome) == healthy /\ outcome = "true"

\* the names registered, in the order of the dict
NamesOf(checks) == [k \in 1..Len(checks) |-> checks[k].name]

\* register_health_check(name, check_func): a dict keeps the place of a key
\* that is assigned again
Registered(checks, name, func) ==
    IF \E k \in 1..Len(checks) : checks[k].name = name
    THEN [k \in 1..Len(checks) |->
            IF checks[k].name = name THEN [name |-> name, func |-> func]
            ELSE checks[k]]
    ELSE Append(checks, [name |-> name, func |-> func])

\* the loop of run_health_checks from the i-th item on, up to the check it
\* has to await or to the end of the dict
RECURSIVE RunFrom(_, _, _, _)
RunFromAbortOnError(i, results, outcomes, healthy) ==
    IF i > Len(health_checks)
    THEN [pc |-> "return", i |-> 0, awaited |-> "none",
          results |-> results, outcomes |-> outcomes, healthy |-> healthy]
    ELSE LET c == health_checks[i]
         IN  IF IsCoroutineFunction(c.func)
             THEN [pc |-> "await", i |-> i, awaited |-> c.func,
                   results |-> results, outcomes |-> outcomes, healthy |-> healthy]
             ELSE IF Outcome(c.func) = "raise"
             THEN [pc |-> "return", i |-> 0, awaited |-> "none",
                   results |-> [results EXCEPT ![c.name] = Entry("raise")],
                   outcomes |-> [outcomes EXCEPT ![c.name] = "raise"],
                   healthy |-> FALSE]
             ELSE RunFrom(i + 1,
                          [results EXCEPT ![c.name] = Entry(Outcome(c.func))],
                          [outcomes EXCEPT ![c.name] = Outcome(c.func)],
                          HealthyAfter(healthy, Outcome(c.func)))
RunFrom(i, results, outcomes, healthy) ==
    IF i > Len(health_checks)
    THEN [pc |-> "return", i |-> 0, awaited |-> "none",
          results |-> results, outcomes |-> outcomes, healthy |-> healthy]
    ELSE LET c == health_checks[i]
         IN  IF IsCoroutineFunction(c.func)
             THEN [pc |-> "await", i |-> i, awaited |-> c.func,
                   results |-> results, outcomes |-> outcomes, healthy |-> healthy]
             ELSE RunFrom(i + 1,
                          [results EXCEPT ![c.name] = Entry(Outcome(c.func))],
                          [outcomes EXCEPT ![c.name] = Outcome(c.func)],
                          HealthyAfter(healthy, Outcome(c.func)))

\* run_health_checks goes on to where r says: it awaits a check, or it sets
\* health_status and returns
Proceed(r) ==
    /\ hc_pc' = IF r.pc = "await" THEN "await" ELSE "idle"
    /\ hc_i' = r.i
    /\ hc_awaited' = r.awaited
    /\ hc_results' = r.results
    /\ hc_outcomes' = r.outcomes
    /\ hc_healthy' = r.healthy
    /\ health_status' = IF r.pc = "await" THEN health_status
                        ELSE IF r.healthy THEN "healthy" ELSE "unhealthy"
    /\ hc_last' = IF r.pc = "await" THEN hc_last
                  ELSE [kind |-> "returned",
                        overall |-> IF r.healthy THEN "healthy" ELSE "unhealthy",
                        checks |-> r.results, outcomes |-> r.outcomes,
                        names |-> NamesOf(health_checks)]

hcOthers == <<rlVars, adVars, smVars, psVars, mwVars, appVars, trVars>>

RegisterHealthCheck(name, func) ==
    /\ health_checks' = Registered(health_checks, name, func)
    /\ UNCHANGED <<health_status, hc_pc, hc_i, hc_size, hc_awaited, hc_results,
                   hc_outcomes, hc_healthy, hc_last>>
    /\ UNCHANGED hcOthers

\* run_health_checks(), from its call to its first suspension or its end
RunHealthChecks ==
    /\ hc_pc = "idle"
    /\ hc_size' = Len(health_checks)
    /\ Proceed(RunFrom(1, [n \in HealthNames |-> NoEntry],
                       [n \in HealthNames |-> "none"], TRUE))
    /\ UNCHANGED health_checks
    /\ UNCHANGED hcOthers

\* the check awaited returns or raises; the for statement then asks the dict
\* for its next item, which raises RuntimeError, outside the try, if the dict
\* has grown since the iteration began
CheckReturns ==
    /\ hc_pc = "await"
    /\ LET name == health_checks[hc_i].name
           results == [hc_results EXCEPT ![name] = Entry(Outcome(hc_awaited))]
           outcomes == [hc_outcomes EXCEPT ![name] = Outcome(hc_awaited)]
           healthy == HealthyAfter(hc_healthy, Outcome(hc_awaited))
       IN  IF Len(health_checks) # hc_size
           THEN /\ hc_pc' = "idle"
                /\ hc_i' = 0
                /\ hc_awaited' = "none"
                /\ hc_results' = results
                /\ hc_outcomes' = outcomes
                /\ hc_healthy' = healthy
                /\ hc_last' = [kind |-> "RuntimeError", overall |-> "none",
                               checks |-> results, outcomes |-> outcomes,
                               names |-> NamesOf(health_checks)]
                /\ UNCHANGED health_status
           ELSE Proceed(RunFrom(hc_i + 1, results, outcomes, healthy))
    /\ UNCHANGED <<health_checks, hc_size>>
    /\ UNCHANGED hcOthers

InitHC == IdleHC /\ IdleTR /\ InitSM /\ state_file_ok /\ IdleRL /\ IdleAd /\ IdlePS /\ IdleMW

NextHC ==
    \/ \E name \in HealthNames, func \in CheckFuncs : RegisterHealthCheck(name, func)
    \/ RunHealthChecks
    \/ CheckReturns

SpecHC == InitHC /\ [][NextHC]_vars

(***************************************************************************)
(* Claims about HealthChecker                                              *)
(***************************************************************************)
NamesSet(names) == {names[k] : k \in 1..Len(names)}

\* C13: run_health_checks reports the aggregate as healthy iff every
\* registered check produced a healthy result; a check that reports unhealthy
\* or raises makes the aggregate unhealthy, whatever the others do and
\* whatever their order.
C13_HealthyIffAll ==
    hc_last.kind = "returned" =>
        /\ hc_last.overall \in {"healthy", "unhealthy"}
        /\ hc_last.overall = "healthy"
              <=> \A n \in NamesSet(hc_last.names) : hc_last.outcomes[n] = "true"
        /\ hc_last.overall = "healthy"
              <=> \A n \in NamesSet(hc_last.names) : hc_last.checks[n].status = "healthy"

\* a run in which the first check raised and the second was healthy
C13_Witness ==
    /\ hc_last.kind = "returned"
    /\ Len(hc_last.names) = 2
    /\ hc_last.outcomes[hc_last.names[1]] = "raise"
    /\ hc_last.outcomes[hc_last.names[2]] = "true"
    /\ hc_last.overall = "unhealthy"

\* C14: a check that raises is captured as an ERROR result carrying the error
\* detail and is not propagated to the caller; every other registered check
\* is still executed, and the results hold exactly one entry per registered
\* name. A run ends with an exception only when a name was registered while
\* it awaited a check.
C14_ErrorsCaptured ==
    /\ hc_last.kind = "RuntimeError" =>
            \E n \in NamesSet(hc_last.names) : hc_last.checks[n] = NoEntry
    /\ hc_last.kind = "returned" =>
        \A n \in HealthNames :
            /\ n \in NamesSet(hc_last.names) <=> hc_last.checks[n] # NoEntry
            /\ n \in NamesSet(hc_last.names) =>
                    /\ hc_last.outcomes[n] \in {"true", "false", "raise"}
                    /\ hc_last.checks[n] = Entry(hc_last.outcomes[n])
            /\ hc_last.outcomes[n] = "raise" =>
                    /\ hc_last.checks[n].status = "error"
                    /\ hc_last.checks[n].error = "str(e)"

\* a run in which the first check, awaited, raised, and the second, a plain
\* function, was still called
C14_Witness ==
    /\ hc_last.kind = "returned"
    /\ Len(hc_last.names) = 2
    /\ hc_last.outcomes[hc_last.names[1]] = "raise"
    /\ hc_last.checks[hc_last.names[1]].status = "error"
    /\ hc_last.checks[hc_last.names[2]].status = "unhealthy"

(***************************************************************************)
(* Callers of the limiters (lib/rate_limiting.py): rate_limit_middleware   *)
(* and the wrapper create_rate_limited_endpoint makes. The middleware      *)
(* suspends only in call_next: is_allowed finds its lock free and runs     *)
(* through.                                                                *)
(***************************************************************************)
Paths == {"/receive-message", "/health"}

RateHeaders == {"X-RateLimit-Limit", "X-RateLimit-Remaining", "X-RateLimit-Reset"}

\* the limit a limiter decides against: its own max_requests, which for the
\* limiters of the callers nothing but their construction sets
EffectiveLimitScaled(lim) == NewLimit(lim.max_requests, current_multiplier)
EffectiveLimit(lim) == lim.max_requests

\* is_allowed(identifier) on the limiter lim at time t: the decision, the
\* rate_info and the window it leaves
Decision(lim, identifier, t) ==
    LET kept == EvictOld(lim.requests[identifier],
                         t - lim.window_seconds * TicksPerSecond)
        current_requests == Len(kept)
        is_allowed == UnderLimit(current_requests, EffectiveLimit(lim))
        request_times == IF is_allowed THEN Admitted(kept, t) ELSE kept
    IN  [allowed |-> is_allowed,
         count |-> current_requests,
         info |-> [limit |-> EffectiveLimit(lim),
                   remaining |-> Remaining(EffectiveLimit(lim), current_requests,
                                           is_allowed),
                   reset |-> ResetTime(request_times, t, lim.window_seconds)],
         request_times |-> request_times]

\* the limiter after that call
Consulted(lim, identifier, t) ==
    [lim EXCEPT !.requests[identifier] = Decision(lim, identifier, t).request_times]

\* the limiter and the identifier the middleware takes for a request
LimiterFor(path) ==
    IF path = "/receive-message" THEN "twilio_rate_limiter" ELSE "ip_rate_limiter"
IdentifierFor(path, client) ==
    IF path = "/receive-message" THEN "twilio_webhook" ELSE client

\* the Response the middleware returns for a rejected request
MiddlewareRejection(lim, info) ==
    [kind |-> "response", status |-> 429,
     headers |-> RateHeaders \cup {"Retry-After"},
     info |-> info, retry_after |-> lim.window_seconds]

\* the HTTPException the wrapper raises for a rejected request
WrapperRejection(lim, info) ==
    [kind |-> "raised", status |-> 429, headers |-> RateHeaders,
     info |-> info, retry_after |-> 0]

\* the response of the handler, with the headers the middleware adds
Passed(info) ==
    [kind |-> "response", status |-> 200, headers |-> RateHeaders,
     info |-> info, retry_after |-> 0]

\* calls of call_next the middleware makes once the check has returned
CallNextAlways(allowed) == 1
CallNext(allowed) == IF allowed THEN 1 ELSE 0

mwOthers == <<rlVars, adVars, smVars, psVars, hcVars, appVars, trVars>>

\* rate_limit_middleware(request, call_next), from its call to the response it
\* returns for a rejection or to its await of call_next
Receive(k, path, client) ==
    LET r == RequestOrder[k]
        name == LimiterFor(path)
        d == Decision(limiters[name], IdentifierFor(path, client), now)
    IN  /\ reqs[r].pc = "new"
        /\ k > 1 => reqs[RequestOrder[k - 1]].pc # "new"
        /\ limiters' = [limiters EXCEPT
                          ![name] = Consulted(@, IdentifierFor(path, client), now)]
        /\ reqs' = [reqs EXCEPT ![r] =
              [pc |-> IF CallNext(d.allowed) > 0 THEN "call_next" ELSE "done",
               path |-> path, limiter |-> name,
               identifier |-> IdentifierFor(path, client), count |-> d.count,
               allowed |-> IF d.allowed THEN "yes" ELSE "no",
               calls |-> CallNext(d.allowed),
               response |-> IF d.allowed THEN Passed(d.info)
                            ELSE MiddlewareRejection(limiters[name], d.info)]]
        /\ UNCHANGED wr_last
        /\ UNCHANGED mwOthers

\* call_next returns the handler's response: the middleware adds the
\* X-RateLimit headers and returns it
CallNextReturns(r) ==
    /\ reqs[r].pc = "call_next"
    /\ reqs' = [reqs EXCEPT ![r].pc = "done"]
    /\ UNCHANGED <<limiters, wr_last>>
    /\ UNCHANGED mwOthers

\* call_next raises: the except branch calls call_next again and returns what
\* it gives
CallNextRaises(r) ==
    /\ reqs[r].pc = "call_next"
    /\ reqs' = [reqs EXCEPT ![r].pc = "except", ![r].calls = @ + 1,
                            ![r].response = NoResponse]
    /\ UNCHANGED <<limiters, wr_last>>
    /\ UNCHANGED mwOthers

\* the call_next of the except branch returns a response, or raises, which
\* the middleware lets through
ExceptReturns(r, raises) ==
    /\ reqs[r].pc = "except"
    /\ reqs' = [reqs EXCEPT ![r].pc = "done",
                  ![r].response =
                      [kind |-> IF raises THEN "raised" ELSE "response",
                       status |-> IF raises THEN 500 ELSE 200,
                       headers |-> {}, info |-> NoInfo, retry_after |-> 0]]
    /\ UNCHANGED <<limiters, wr_last>>
    /\ UNCHANGED mwOthers

\* wrapper(request) of create_rate_limited_endpoint: the check, then the
\* HTTPException or the call of the endpoint function
WrapperCall(client) ==
    LET lim == limiters["endpoint_limiter"]
        d == Decision(lim, client, now)
    IN  /\ limiters' = [limiters EXCEPT
                          !["endpoint_limiter"] = Consulted(@, client, now)]
        /\ wr_last' = [allowed |-> IF d.allowed THEN "yes" ELSE "no",
                       calls |-> IF d.allowed THEN 1 ELSE 0,
                       response |-> IF d.allowed
                                    THEN [kind |-> "response", status |-> 200,
                                          headers |-> {}, info |-> NoInfo,
                                          retry_after |-> 0]
                                    ELSE WrapperRejection(lim, d.info)]
        /\ UNCHANGED reqs
        /\ UNCHANGED mwOthers

\* a pause in the traffic, longer than every window
Pause ==
    /\ now < MaxTime * TicksPerSecond
    /\ now' = now + (MaxWindow + 1) * TicksPerSecond
    /\ UNCHANGED <<max_requests, window_seconds, requests, rl_log, in_flight, lock, waited>>
    /\ UNCHANGED <<adVars, smVars, psVars, hcVars, mwVars, appVars, trVars>>

\* the limiters as the module creates them, scaled down: the webhook limiter
\* is the stricter one
InitMW ==
    /\ limiters = [l \in LimiterNames |->
            [max_requests |-> IF l = "ip_rate_limiter" THEN MaxLimit ELSE 1,
             window_seconds |-> IF l = "twilio_rate_limiter" THEN 1 ELSE MaxWindow,
             requests |-> [i \in CallerIdentifiers |-> <<>>]]]
    /\ reqs = [r \in RequestIds |-> NewRequest]
    /\ wr_last = NoWrapperCall
    /\ InitSM
    /\ state_file_ok
    /\ IdleRL
    /\ IdleAd
    /\ IdlePS
    /\ IdleHC /\ IdleTR

NextMW ==
    \/ \E k \in 1..Len(RequestOrder), path \in Paths, client \in Identifiers :
            Receive(k, path, client)
    \/ \E r \in RequestIds : CallNextReturns(r)
    \/ \E r \in RequestIds : CallNextRaises(r)
    \/ \E r \in RequestIds, raises \in BOOLEAN : ExceptReturns(r, raises)
    \/ \E client \in Identifiers : WrapperCall(client)
    \/ Pause

SpecMW == InitMW /\ [][NextMW]_vars

(***************************************************************************)
(* Claims about the callers of the limiters                                *)
(***************************************************************************)
\* what a rejection has to be turned into: a 429 response, not an exception,
\* with the three X-RateLimit headers and a Retry-After of the window length
IsOverloadResponse(response, lim) ==
    /\ response.kind = "response"
    /\ response.status = 429
    /\ response.headers = RateHeaders \cup {"Retry-After"}
    /\ response.retry_after = lim.window_seconds

\* C15: a rejected admission never raises: the middleware and the
\* per-endpoint wrapper both turn it into a 429 response carrying
\* X-RateLimit-Limit, X-RateLimit-Remaining, X-RateLimit-Reset and a
\* Retry-After equal to the limiter's window length.
C15_RejectionIs429 ==
    /\ \A r \in RequestIds :
            reqs[r].allowed = "no" =>
                IsOverloadResponse(reqs[r].response, limiters[reqs[r].limiter])
    /\ wr_last.allowed = "no" =>
            IsOverloadResponse(wr_last.response, limiters["endpoint_limiter"])

AllSaves == {k \in 1..Len(sm_log) : sm_log[k].ev = "save"}

\* the service state: the state last handed to _save_service_state
LastState ==
    IF AllSaves = {} THEN "none"
    ELSE sm_log[CHOOSE k \in AllSaves : \A l \in AllSaves : l <= k].arg

\* a call of shutdown() has passed the guard
ShutdownBegun == EvIdx({"begin"}) # {}

\* C17 as stated: is_running() is true iff the service state is neither
\* SHUTTING_DOWN nor STOPPED and no shutdown has been requested, a delivered
\* signal being a request.
C17_RunningIffNotRequested ==
    IsRunning <=> /\ LastState \notin {"shutting_down", "stopped"}
                  /\ ~ShutdownBegun
                  /\ scheduled = 0

\* C17 amended: is_running() is true iff the service state is neither
\* SHUTTING_DOWN nor STOPPED and no call of shutdown() has begun; a signal
\* whose scheduled shutdown() has not started yet leaves it true.
C17_RunningIffNotBegun ==
    IsRunning <=> /\ LastState \notin {"shutting_down", "stopped"}
                  /\ ~ShutdownBegun

\* a started service whose shutdown has completed: is_running() is false
C17_Witness ==
    /\ startup_time > 0
    /\ sd_pc = "done"
    /\ LastState = "stopped"
    /\ ~IsRunning

\* C18: a signal delivered while the event loop is running changes no state
\* of the ServiceManager inside the handler (flag, event, task and handler
\* lists, saved states): it only schedules shutdown() on the loop; a shutdown
\* begun on behalf of a signal while the loop runs is begun by the task
\* scheduled.
C18_SignalOnlySchedules ==
    [][/\ (loop_running /\ \E async_raises \in BOOLEAN : SignalHandler(async_raises))
            => /\ scheduled' = scheduled + 1
               /\ UNCHANGED <<is_shutting_down, shutdown_event, cleanup_handlers,
                              background_tasks, sd_pc, sd_i, task_status,
                              cancel_req, sm_log>>
       /\ (/\ loop_running
           /\ Len(sm_log') > Len(sm_log)
           /\ sm_log'[Len(sm_log) + 1] = Event("begin", "signal", TRUE))
            => scheduled' = scheduled - 1
      ]_vars

\* a signal has been delivered to the running service and its shutdown() is
\* scheduled, not begun
C18_Witness ==
    /\ loop_running
    /\ scheduled > 0
    /\ LastState = "running"
    /\ ~is_shutting_down
    /\ ~shutdown_event

(***************************************************************************)
(* Further claims about RateLimiter                                        *)
(***************************************************************************)
\* the timestamps of the window found by a check that had not expired then
Unexpired(e) ==
    {j \in 1..Len(e.before) : e.before[j] > e.at - WindowTicks}

\* C19: every decision of is_allowed reports limit = the limit of the limiter
\* and remaining = max(0, limit - count - (1 if admitted)), count being the
\* number of unexpired timestamps of the identifier before the check; hence
\* 0 <= remaining <= limit, and a rejected check reports remaining = 0.
C19_RemainingReported ==
    \A k \in 1..Len(rl_log) :
        LET e == rl_log[k]
            count == Cardinality(Unexpired(e))
        IN  /\ e.limit = max_requests
            /\ e.remaining
                 = Max(0, max_requests - count - (IF e.allowed THEN 1 ELSE 0))
            /\ e.remaining >= 0
            /\ e.remaining <= e.limit
            /\ ~e.allowed => e.remaining = 0

\* a check admitted with a request to spare, a check rejected, and a check
\* that found an expired timestamp in the window
C19_Witness ==
    /\ \E k \in 1..Len(rl_log) : rl_log[k].allowed /\ rl_log[k].remaining >= 1
    /\ \E k \in 1..Len(rl_log) : ~rl_log[k].allowed /\ rl_log[k].remaining = 0
    /\ \E k \in 1..Len(rl_log) :
            Cardinality(Unexpired(rl_log[k])) < Len(rl_log[k].before)

(***************************************************************************)
(* Checks dispatched at once: the coroutines of K is_allowed calls are     *)
(* pending on the event loop, which runs them one after the other.         *)
(***************************************************************************)
RECURSIVE SumOver(_, _)
SumOver(f, S) ==
    IF S = {} THEN 0
    ELSE LET x == CHOOSE y \in S : TRUE IN f[x] + SumOver(f, S \ {x})

\* the event loop runs the coroutine of a dispatched call: with the lock
\* free it runs is_allowed, with the lock held it joins the waiters of the lock
RunDispatched(identifier) ==
    /\ in_flight[identifier] > 0
    /\ IF lock = "none"
       THEN IsAllowed(identifier)
       ELSE /\ waited' = waited \cup {<<identifier, lock>>}
            /\ UNCHANGED <<now, max_requests, window_seconds, requests,
                           rl_log, in_flight, lock>>
            /\ UNCHANGED <<adVars, smVars, psVars, hcVars, mwVars, appVars, trVars>>

\* a limiter just constructed, and the calls dispatched on it
InitCC ==
    /\ now = 0
    /\ max_requests \in 0..MaxLimit
    /\ window_seconds \in 1..MaxWindow
    /\ requests = [i \in Identifiers |-> <<>>]
    /\ rl_log = <<>>
    /\ in_flight \in [Identifiers -> 0..MaxChecks]
    /\ SumOver(in_flight, Identifiers) <= MaxChecks
    /\ lock = "none"
    /\ waited = {}
    /\ IdleAd
    /\ InitSM
    /\ IdlePS
    /\ IdleHC /\ IdleTR
    /\ IdleMW

NextCC ==
    \/ \E identifier \in Identifiers : RunDispatched(identifier)
    \/ Tick

SpecCC == InitCC /\ [][NextCC]_vars

CountAllowed(E) == Cardinality({k \in 1..Len(E) : E[k].allowed})

\* C20: checks dispatched at once for one identifier are serialized: of K
\* checks in flight against an empty window with limit L, none expiring
\* meanwhile, min(K, L) are admitted so far as they have run, and the window
\* of the identifier holds exactly the timestamps admitted: no update is lost
\* or counted twice, and never more than L are admitted.
C20_DispatchedSerialized ==
    \A identifier \in Identifiers :
        LET E == ChecksOf(identifier)
        IN  (\A k \in 1..Len(E) : NoneExpired(E, k)) =>
                /\ CountAllowed(E) = Min(Len(E), max_requests)
                /\ Len(requests[identifier]) = CountAllowed(E)
                /\ CountAllowed(E) <= max_requests

\* more checks than the limit were in flight for an identifier, all have run
\* within the window, and the window holds exactly the limit
C20_Witness ==
    \E identifier \in Identifiers :
        LET E == ChecksOf(identifier)
        IN  /\ max_requests >= 1
            /\ in_flight[identifier] = 0
            /\ Len(E) > max_requests
            /\ \A k \in 1..Len(E) : NoneExpired(E, k)
            /\ Len(requests[identifier]) = max_requests

GlobalLimit(l) == IF l = "ip_rate_limiter" THEN MaxLimit ELSE 1

InitGL ==
    /\ now = 0
    /\ base_limit = MaxLimit
    /\ window_seconds = MaxWindow
    /\ current_multiplier = Scale
    /\ load_samples = <<>>
    /\ last_adjustment = now
    /\ max_requests = base_limit
    /\ requests = [i \in Identifiers |-> <<>>]
    /\ rl_log = <<>>
    /\ in_flight = [i \in Identifiers |-> 0]
    /\ lock = "none"
    /\ waited = {}
    /\ ad_updates = 0
    /\ ad_last = [kind |-> "none"]
    /\ mon_pc = "ready"
    /\ limiters = [l \in LimiterNames |->
            [max_requests |-> GlobalLimit(l),
             window_seconds |-> IF l = "twilio_rate_limiter" THEN 1 ELSE MaxWindow,
             requests |-> [i \in CallerIdentifiers |-> <<>>]]]
    /\ reqs = [r \in RequestIds |-> NewRequest]
    /\ wr_last = NoWrapperCall
    /\ InitSM
    /\ state_file_ok
    /\ IdlePS
    /\ IdleHC /\ IdleTR

\* update_system_load calls made while the middleware serves requests
MaxGlobalUpdates == 2

NextGL ==
    \/ /\ ad_updates < MaxGlobalUpdates
       /\ \E load \in LoadInputs, gap \in UpdateGaps :
                UpdateSystemLoad(load[1], load[2], gap) /\ UNCHANGED mon_pc
    \/ \E k \in 1..Len(RequestOrder), path \in Paths, client \in Identifiers :
            Receive(k, path, client)
    \/ \E r \in RequestIds : CallNextReturns(r)

SpecGL == InitGL /\ [][NextGL]_vars

GlobalNames == {"ip_rate_limiter", "twilio_rate_limiter"}

\* C22: the multiplier applies to the adaptive instance only: whatever
\* update_system_load calls were made, the per-IP and the webhook limiter keep
\* the max_requests they were constructed with, and each of their decisions
\* admits iff the count is under that limit and reports that limit.
C22_MultiplierFrame ==
    \A l \in GlobalNames :
        /\ limiters[l].max_requests = GlobalLimit(l)
        /\ \A r \in RequestIds :
                reqs[r].limiter = l =>
                    /\ reqs[r].allowed = "yes" <=> reqs[r].count < GlobalLimit(l)
                    /\ reqs[r].response.info.limit = GlobalLimit(l)

\* the multiplier has moved the limit of the adaptive instance, and after
\* that the webhook limiter has rejected a request and the per-IP limiter
\* has admitted one
C22_Witness ==
    /\ current_multiplier # Scale
    /\ max_requests # base_limit
    /\ \E r \in RequestIds :
            /\ reqs[r].limiter = "twilio_rate_limiter"
            /\ reqs[r].allowed = "no"
            /\ reqs[r].response.info.reset > AdjustInterval
    /\ \E r \in RequestIds :
            /\ reqs[r].limiter = "ip_rate_limiter"
            /\ reqs[r].allowed = "yes"
            /\ reqs[r].response.info.reset > AdjustInterval

(***************************************************************************)
(* The program around the ServiceManager (lib/service_manager.py lifespan, *)
(* main.py): the two ways it starts the scheduler, and its shutdown.       *)
(***************************************************************************)
\* start(), as the first step of a startup path
Started ==
    /\ app_path = "none"
    /\ ops < MaxOps
    /\ ops' = ops + 1
    /\ loop_running
    /\ startup_time' = startup_time + 1
    /\ signal_handlers' = TRUE
    /\ sm_log' = SaveServiceState(SaveServiceState(sm_log, "starting"), "running")
    /\ UNCHANGED <<is_shutting_down, shutdown_event, background_tasks,
                   loop_running, scheduled, sd_pc, sd_i, sd_timed_out,
                   task_status, cancel_req, swallowed, state_file_ok>>
    /\ UNCHANGED <<rlVars, adVars, psVars, mwVars, trVars>>

\* lifespan(app) up to its yield: start(), the two cleanup handlers,
\* scheduler_manager.start(), the two health checks
LifespanStartup ==
    /\ Started
    /\ app_path' = "lifespan"
    /\ cleanup_handlers' =
            Append(Append(cleanup_handlers, "cleanup_scheduler"), "cleanup_resources")
    /\ scheduler_running' = TRUE
    /\ state_flushed' = state_flushed
    /\ health_checks' = Registered(Registered(health_checks, "scheduler", "true"),
                                   "state_file", "true")
    /\ UNCHANGED <<health_status, hc_pc, hc_i, hc_size, hc_awaited, hc_results,
                   hc_outcomes, hc_healthy, hc_last>>

\* main() in terminal test mode up to chat_terminal(): start(),
\* scheduler_manager.start(), add_job
TestModeStartup ==
    /\ Started
    /\ app_path' = "test"
    /\ scheduler_running' = TRUE
    /\ UNCHANGED <<cleanup_handlers, state_flushed, hcVars>>

\* startup_event(): the health monitoring task is created and registered; it
\* lets a cancellation through
StartupEvent ==
    /\ app_path = "lifespan"
    /\ background_tasks = <<>>
    /\ ~is_shutting_down
    /\ AddBackgroundTask("coop")

InitApp == InitSMSpec

NextApp ==
    \/ LifespanStartup
    \/ TestModeStartup
    \/ StartupEvent
    \/ app_path # "none" /\ ShutdownCall
    \/ app_path # "none" /\ ShutdownScheduled
    \/ \E async_raises \in BOOLEAN : app_path # "none" /\ SignalHandler(async_raises)
    \/ TaskStep("coop")
    \/ TaskFinish("coop")
    \/ WaitReturns

SpecApp == InitApp /\ [][NextApp]_vars

\* C23: once a shutdown sequence, begun by a signal or by a call, has
\* completed (the state STOPPED is saved), every registered background task has
\* been asked to cancel unless it was done already, the persistent state has
\* been flushed and the scheduler has been stopped, on the lifespan path and
\* on the terminal test mode path.
C23_StoppedMeansCleanedUp ==
    (app_path # "none" /\ LastState = "stopped") =>
        /\ \A k \in 1..Len(background_tasks) :
                \E j \in EvIdx({"cancel", "skip"}) :
                    sm_log[j].arg = background_tasks[k]
        /\ state_flushed
        /\ ~scheduler_running

\* no entry of the sequence q occurs in it twice
NoDuplicates(q) == \A j, k \in 1..Len(q) : q[j] = q[k] => j = k

\* the registrations only ever append
RegistrationsAppendOnly ==
    [][/\ IsPrefix(cleanup_handlers, cleanup_handlers')
       /\ IsPrefix(background_tasks, background_tasks')]_vars

\* C24: add_cleanup_handler and add_background_task are idempotent by name:
\* registering a handler or a task that is registered already adds no second
\* entry, so no handler is in cleanup_handlers twice, no task is in
\* background_tasks twice, and no handler is run twice during shutdown.
C24_IdempotentByName ==
    /\ NoDuplicates(cleanup_handlers)
    /\ NoDuplicates(background_tasks)
    /\ \A h \in HandlerPool :
            Cardinality({k \in EvIdx({"handler"}) : sm_log[k].arg = h}) <= 1

\* C25: loading the persistent state is never fatal to the caller: load_state
\* returns without an exception, and when the state file is missing or cannot
\* be parsed the state it leaves is empty.
C25_LoadNeverFatal ==
    ps_last.op = "load" =>
        /\ ps_last.result = "None"
        /\ state_file.kind \in {"absent", "corrupt"} =>
                ps_state = [k \in Keys |-> Absent]

\* a set whose save failed left a state file cut short and a key in the
\* state; load_state has then run on that file
C25_Witness ==
    /\ ps_last.op = "load"
    /\ ps_prev.op = "set"
    /\ state_file = Truncated
    /\ ps_state = [k \in Keys |-> Absent]

\* C26: at all times, for every identifier, the retained timestamps lie
\* within [now - window_seconds, now] and are in non-decreasing order: none
\* older than the window remains retained.
C26_WindowHoldsOnlyFresh ==
    \A identifier \in Identifiers :
        LET q == requests[identifier]
        IN  /\ \A k \in 1..Len(q) : now - WindowTicks <= q[k] /\ q[k] <= now
            /\ \A j, k \in 1..Len(q) : j < k => q[j] <= q[k]

\* C29: every decision returned by is_allowed, admitted or rejected, whatever
\* the limit (0 included), reports reset = now + window_seconds, in whole
\* seconds.
C29_ResetIsNowPlusWindow ==
    \A k \in 1..Len(rl_log) :
        rl_log[k].reset = IntSec(rl_log[k].at + WindowTicks)

(***************************************************************************)
(* The adaptive instance with checks on its inner limiter                  *)
(* (adaptive_limiter.rate_limiter.is_allowed) between the load updates.    *)
(***************************************************************************)
NextAI ==
    \/ /\ ad_updates < MaxGlobalUpdates
       /\ \E load \in LoadInputs, gap \in UpdateGaps :
                UpdateSystemLoad(load[1], load[2], gap) /\ UNCHANGED mon_pc
    \/ \E identifier \in Identifiers : IsAllowed(identifier)

SpecAI == InitAd /\ [][NextAI]_vars

\* floor(base_limit x current multiplier)
FloorLimit == (base_limit * current_multiplier) \div Scale

\* C30: in every reachable state the limit of the inner limiter of the
\* adaptive instance is floor(base_limit x current multiplier), and every
\* check made since the multiplier last changed admitted iff the count was
\* under that limit; every check admitted iff the count was under the limit
\* in force.
C30_EffectiveLimitIsFloor ==
    /\ max_requests = FloorLimit
    /\ \A k \in 1..Len(rl_log) :
            /\ rl_log[k].allowed <=> rl_log[k].count < rl_log[k].limit
            /\ rl_log[k].at >= last_adjustment =>
                    /\ rl_log[k].limit = FloorLimit
                    /\ rl_log[k].allowed <=> rl_log[k].count < FloorLimit

\* the multiplier has cut the limit below base_limit, and a check with a
\* count under base_limit was rejected against the cut limit
C30_Witness ==
    /\ current_multiplier < Scale
    /\ max_requests < base_limit
    /\ \E k \in 1..Len(rl_log) :
            /\ rl_log[k].at >= last_adjustment
            /\ ~rl_log[k].allowed
            /\ rl_log[k].count = max_requests

(***************************************************************************)
(* The tracker list and the alerts (lib/tools.py, lib/tracker.py,          *)
(* lib/config_manager.py). The tools run on the event loop and never       *)
(* suspend; a tracking cycle is one call of track_stocks.                  *)
(***************************************************************************)
\* tool calls, tracking cycles and midnights in one behaviour
MaxTrackerOps == 5

\* days a behaviour spans
MaxDays == 2

\* symbols the tools are called with
RawSymbols == {<<"a">>, <<" ", "A">>, <<"B", " ">>, <<"b">>, <<"x">>, <<" ">>, <<>>}

\* str.upper() on a character
UpperChar(c) ==
    IF c = "a" THEN "A" ELSE IF c = "b" THEN "B" ELSE IF c = "x" THEN "X" ELSE c

\* str.strip(): the blanks at both ends go
RECURSIVE LStrip(_)
LStrip(str) == IF str # <<>> /\ Head(str) = " " THEN LStrip(Tail(str)) ELSE str
RECURSIVE RStrip(_)
RStrip(str) ==
    IF str # <<>> /\ str[Len(str)] = " "
    THEN RStrip(SubSeq(str, 1, Len(str) - 1))
    ELSE str

\* symbol.strip().upper()
StripUpper(str) ==
    LET stripped == RStrip(LStrip(str))
    IN  [k \in 1..Len(stripped) |-> UpperChar(stripped[k])]

\* _read_tracker_list, _read_json_file(TRACKER_FILE, []): no file, or a file
\* json.load fails on, gives []
ReadTrackerList(f) == IF f.kind = "json" THEN f.list ELSE <<>>

WriteFaults == {"none", "open", "write"}

\* _write_tracker_list(tracker_list): open fails and the file stays, or the
\* write fails and leaves the file cut short
WrittenTrackerFile(f, tracker_list, fault) ==
    IF fault = "none" THEN [kind |-> "json", list |-> tracker_list]
    ELSE IF fault = "open" THEN f
    ELSE [kind |-> "corrupt", list |-> <<>>]

\* symbol in tracker_list
InTrackerListNever(symbol, tracker_list) == FALSE
InTrackerList(symbol, tracker_list) ==
    \E k \in 1..Len(tracker_list) : tracker_list[k] = symbol

\* tracker_list.remove(symbol): the first occurrence goes
RECURSIVE RemoveFirst(_, _)
RemoveFirst(tracker_list, symbol) ==
    IF tracker_list = <<>> THEN <<>>
    ELSE IF Head(tracker_list) = symbol THEN Tail(tracker_list)
    ELSE <<Head(tracker_list)>> \o RemoveFirst(Tail(tracker_list), symbol)

\* get_stock_config(symbol): a default StockConfig is created if there is none
WithStockConfig(config, symbol) ==
    IF config[symbol].present THEN config
    ELSE [config EXCEPT ![symbol] = [present |-> TRUE, last_alert |-> 0]]

\* remove_stock_config(symbol)
WithoutStockConfig(config, symbol) == [config EXCEPT ![symbol] = NoConfig]

ToolCall(op, raw, symbol, result, before) ==
    [op |-> op, raw |-> raw, symbol |-> symbol, result |-> result, before |-> before]

\* add_stock_to_tracker(symbol)
AddStockToTracker(raw, fault) ==
    LET symbol == StripUpper(raw)
        tracker_list == ReadTrackerList(tracker_file)
        result == IF raw = <<>> THEN "invalid"
                  ELSE IF InTrackerList(symbol, tracker_list) THEN "already"
                  ELSE IF symbol \notin Listed THEN "not_found"
                  ELSE IF fault = "none" THEN "added"
                  ELSE "not_saved"
    IN  /\ tr_ops < MaxTrackerOps
        /\ tr_ops' = tr_ops + 1
        /\ tracker_file' =
                IF result \in {"added", "not_saved"}
                THEN WrittenTrackerFile(tracker_file, Append(tracker_list, symbol), fault)
                ELSE tracker_file
        /\ stocks_config' = IF result = "added"
                            THEN WithStockConfig(stocks_config, symbol)
                            ELSE stocks_config
        /\ tr_last' = ToolCall("add", raw, symbol, result, tracker_list)
        /\ UNCHANGED <<alert_history, pipeline_runs, today>>
        /\ UNCHANGED <<rlVars, adVars, smVars, psVars, hcVars, mwVars, appVars>>

\* remove_stock_from_tracker(symbol)
RemoveStockFromTracker(raw, fault) ==
    LET symbol == StripUpper(raw)
        tracker_list == ReadTrackerList(tracker_file)
        result == IF raw = <<>> THEN "invalid"
                  ELSE IF ~InTrackerList(symbol, tracker_list) THEN "not_tracked"
                  ELSE IF fault = "none" THEN "removed"
                  ELSE "not_saved"
    IN  /\ tr_ops < MaxTrackerOps
        /\ tr_ops' = tr_ops + 1
        /\ tracker_file' =
                IF result \in {"removed", "not_saved"}
                THEN WrittenTrackerFile(tracker_file,
                                        RemoveFirst(tracker_list, symbol), fault)
                ELSE tracker_file
        /\ stocks_config' = IF result = "removed"
                            THEN WithoutStockConfig(stocks_config, symbol)
                            ELSE stocks_config
        /\ tr_last' = ToolCall("remove", raw, symbol, result, tracker_list)
        /\ UNCHANGED <<alert_history, pipeline_runs, today>>
        /\ UNCHANGED <<rlVars, adVars, smVars, psVars, hcVars, mwVars, appVars>>

\* what get_stock_price gives for a symbol in a cycle: a price that moved
\* less than the threshold, one that moved at least the threshold, or an error
Quotes == [Listed -> {"flat", "moved", "error"}]

\* should_alert(symbol, change) for a change of at least the threshold, the
\* stock and the tracking being enabled: not if last_alert is today
ShouldAlert(config, symbol, day) == config[symbol].last_alert # day

\* the loop of track_stocks from the i-th symbol of the list on
RECURSIVE TrackFrom(_, _, _, _, _, _, _)
TrackFrom(i, tracker_list, quotes, history_ok, config, history, runs) ==
    IF i > Len(tracker_list)
    THEN [config |-> config, history |-> history, runs |-> runs]
    ELSE LET symbol == StripUpper(tracker_list[i])
         IN  IF symbol \notin Listed \/ quotes[symbol] = "error"
             THEN TrackFrom(i + 1, tracker_list, quotes, history_ok,
                            config, history, runs)
             ELSE LET known == WithStockConfig(config, symbol)
                  IN  IF quotes[symbol] = "moved" /\ ShouldAlert(known, symbol, today)
                      THEN TrackFrom(i + 1, tracker_list, quotes, history_ok,
                               [known EXCEPT ![symbol].last_alert = today],
                               IF history_ok
                               THEN [history EXCEPT ![symbol] = Append(@, today)]
                               ELSE history,
                               IF history_ok
                               THEN Append(runs, [symbol |-> symbol, day |-> today])
                               ELSE runs)
                      ELSE TrackFrom(i + 1, tracker_list, quotes, history_ok,
                                     known, history, runs)

\* track_stocks(): one tracking cycle
TrackStocks(quotes, history_ok) ==
    LET r == TrackFrom(1, ReadTrackerList(tracker_file), quotes, history_ok,
                       stocks_config, alert_history, pipeline_runs)
    IN  /\ tr_ops < MaxTrackerOps
        /\ tr_ops' = tr_ops + 1
        /\ stocks_config' = r.config
        /\ alert_history' = r.history
        /\ pipeline_runs' = r.runs
        /\ UNCHANGED <<tracker_file, today, tr_last>>
        /\ UNCHANGED <<rlVars, adVars, smVars, psVars, hcVars, mwVars, appVars>>

\* midnight passes
NextDay ==
    /\ tr_ops < MaxTrackerOps
    /\ today < MaxDays
    /\ tr_ops' = tr_ops + 1
    /\ today' = today + 1
    /\ UNCHANGED <<tracker_file, stocks_config, alert_history, pipeline_runs, tr_last>>
    /\ UNCHANGED <<rlVars, adVars, smVars, psVars, hcVars, mwVars, appVars>>

InitTR ==
    /\ IdleTR
    /\ InitSM
    /\ state_file_ok
    /\ IdleRL
    /\ IdleAd
    /\ IdlePS
    /\ IdleHC
    /\ IdleMW

NextTR ==
    \/ \E raw \in RawSymbols, fault \in WriteFaults : AddStockToTracker(raw, fault)
    \/ \E raw \in RawSymbols, fault \in WriteFaults : RemoveStockFromTracker(raw, fault)
    \/ \E quotes \in Quotes, history_ok \in BOOLEAN : TrackStocks(quotes, history_ok)
    \/ NextDay

SpecTR == InitTR /\ [][NextTR]_vars

\* C27: after any sequence of add_stock_to_tracker and
\* remove_stock_from_tracker calls the tracker list holds no symbol twice, and
\* adding a symbol that, trimmed and upper-cased, is tracked already leaves
\* the list as it was and reports it as already tracked.
C27_NoSymbolTwice ==
    /\ NoDuplicates(ReadTrackerList(tracker_file))
    /\ (tr_last.op = "add" /\ \E k \in 1..Len(tr_last.before) :
                                  tr_last.before[k] = tr_last.symbol)
            => /\ tr_last.result = "already"
               /\ ReadTrackerList(tracker_file) = tr_last.before

\* a symbol typed in lower case or with a blank, tracked already, was added
\* again to a list of two and reported as already tracked
C27_Witness ==
    /\ tr_last.op = "add"
    /\ tr_last.result = "already"
    /\ tr_last.raw # tr_last.symbol
    /\ Len(ReadTrackerList(tracker_file)) = Cardinality(Listed)

\* C28: over any sequence of tracking cycles and tracker list edits, the
\* research and alert pipeline is run at most once for a symbol on one day.
C28_OneAlertPerDay ==
    \A j, k \in 1..Len(pipeline_runs) :
        pipeline_runs[j] = pipeline_runs[k] => j = k

(***************************************************************************)
(* monitor_system_load (lib/rate_limiting.py): the task that samples the   *)
(* load and feeds adaptive_limiter, one round of its loop after the other. *)
(***************************************************************************)
\* seconds of the clock a behaviour of the task spans
MaxMonitorSeconds == 150

\* await asyncio.sleep(30) after a sample, await asyncio.sleep(60) after an error
SampleDelay == 30
ErrorDelay == 60

\* what get_system_metrics returns: a measured pair, or the pair it makes up
\* when psutil cannot be imported
MonitorLoads == LoadInputs \cup {<<50, 50>>}

\* ticks get_system_metrics takes: next to none, or the second that
\* cpu_percent(interval=1) measures over
SampleTicks == {1, TicksPerSecond}

\* load_samples after a round whose get_system_metrics raised: the call of
\* update_system_load is skipped
SamplesAfterErrorZero(samples) == AppendBounded(samples, 0)
SamplesAfterError(samples) == samples

\* a round in which get_system_metrics returns: update_system_load, then
\* the task sleeps 30 s
MonitorSamples(load, took) ==
    /\ mon_pc = "ready"
    /\ UpdateSystemLoad(load[1], load[2], took)
    /\ mon_pc' = "sleep30"

\* a round in which get_system_metrics raises: the except branch logs, and
\* the task sleeps 60 s
MonitorSampleFails(took) ==
    /\ mon_pc = "ready"
    /\ mon_pc' = "sleep60"
    /\ now' = now + took
    /\ load_samples' = SamplesAfterError(load_samples)
    /\ ad_last' = [kind |-> "error",
                   at |-> now + took,
                   samples |-> load_samples,
                   prev_multiplier |-> current_multiplier,
                   prev_limit |-> max_requests]
    /\ UNCHANGED <<base_limit, current_multiplier, last_adjustment, ad_updates,
                   max_requests, window_seconds, requests, rl_log, in_flight,
                   lock, waited>>
    /\ UNCHANGED <<smVars, psVars, hcVars, mwVars, appVars, trVars>>

\* the sleep of the task ends
MonitorWakes ==
    LET delay == IF mon_pc = "sleep30" THEN SampleDelay ELSE ErrorDelay
    IN  /\ mon_pc \in {"sleep30", "sleep60"}
        /\ now + delay * TicksPerSecond <= MaxMonitorSeconds * TicksPerSecond
        /\ now' = now + delay * TicksPerSecond
        /\ mon_pc' = "ready"
        /\ UNCHANGED <<base_limit, current_multiplier, load_samples, last_adjustment,
                       ad_updates, ad_last, max_requests, window_seconds, requests,
                       rl_log, in_flight, lock, waited>>
        /\ UNCHANGED <<smVars, psVars, hcVars, mwVars, appVars, trVars>>

NextMon ==
    \/ \E load \in MonitorLoads, took \in SampleTicks : MonitorSamples(load, took)
    \/ \E took \in SampleTicks : MonitorSampleFails(took)
    \/ MonitorWakes

SpecMon == InitAd /\ [][NextMon]_vars

\* C31: when get_system_metrics raises, the round is skipped: the multiplier,
\* the load history and the limit are what they were before the round, the
\* task is not ended but in its error delay, and it is ready to sample again
\* no sooner than that delay after the error.
C31_FailedSampleSkipped ==
    ad_last.kind = "error" =>
        /\ current_multiplier = ad_last.prev_multiplier
        /\ load_samples = ad_last.samples
        /\ max_requests = ad_last.prev_limit
        /\ max_requests = (base_limit * current_multiplier) \div Scale
        /\ mon_pc \in {"sleep60", "ready"}
        /\ mon_pc = "ready" => now >= ad_last.at + ErrorDelay * TicksPerSecond

\* the sampler raised after the multiplier had been moved, and the task has
\* slept its error delay and is about to sample again
C31_Witness ==
    /\ ad_last.kind = "error"
    /\ current_multiplier # Scale
    /\ load_samples # <<>>
    /\ mon_pc = "ready"

\* the checks of the identifier admitted at an instant in the set T
AdmittedIn(identifier, T) ==
    {k \in 1..Len(ChecksOf(identifier)) :
        ChecksOf(identifier)[k].allowed /\ ChecksOf(identifier)[k].at \in T}

\* the instants a behaviour can reach
Instants == 0..(MaxTime * TicksPerSecond)

\* C32: with a fixed limit L, whatever the check times, at most L checks of
\* one identifier are admitted within any half-open interval of length
\* window_seconds, [a, a + window) or (a, a + window].
C32_AtMostLimitPerWindow ==
    \A identifier \in Identifiers : \A a \in Instants :
        /\ Cardinality(AdmittedIn(identifier, a..(a + WindowTicks - 1))) <= max_requests
        /\ Cardinality(AdmittedIn(identifier, (a + 1)..(a + WindowTicks))) <= max_requests

\* the bound is tight: a closed interval of that length holds one admitted
\* check more than the limit, the first and the last a window apart
C32_Witness ==
    /\ max_requests >= 1
    /\ \E identifier \in Identifiers : \E a \in Instants :
            Cardinality(AdmittedIn(identifier, a..(a + WindowTicks))) = max_requests + 1

\* C33: for every request the middleware calls call_next at most once, also
\* when the handler raises.
C33_CallNextAtMostOnce ==
    \A r \in RequestIds : reqs[r].calls <= 1

\* C34: whenever set, delete or clear of the persistent state has returned,
\* also after a failed write rolled back to the backup, the state in memory,
\* as json.dump writes it, is what the state file holds.
C34_MemoryEqualsFile ==
    ps_last.op \in {"set", "delete", "clear"}
        => LoadedState(state_file) = JsonDump(ps_state)

\* C35: is_running() is monotone: once it returns false it does not return
\* true again, whatever start(), shutdown() or signal comes later.
C35_IsRunningMonotone ==
    [][~IsRunning => ~IsRunning']_vars

\* start() called again after shutdown() began: is_running() still false
C35_Witness ==
    /\ ~IsRunning
    /\ \E i \in SaveIdx("shutting_down"), j \in SaveIdx("starting") : i < j

\* C36: an update_system_load call that comes less than 30 seconds after the
\* last adjustment point (or the construction) only appends its sample to the
\* history, which keeps its newest 10, and leaves the multiplier, the limit in
\* force and the last-adjustment time as they were.
C36_NoAdjustmentWithinInterval ==
    [][(/\ ad_updates' = ad_updates + 1
        /\ now' - last_adjustment < AdjustInterval * TicksPerSecond)
       => LET dropped == IF Len(load_samples) = HistoryCapacity THEN 1 ELSE 0
          IN  /\ current_multiplier' = current_multiplier
              /\ max_requests' = max_requests
              /\ last_adjustment' = last_adjustment
              /\ Len(load_samples') = Len(load_samples) + 1 - dropped
              /\ \A k \in 1..(Len(load_samples') - 1) :
                        load_samples'[k] = load_samples[k + dropped]]_vars

\* a sample 10 seconds after an adjustment that changed the multiplier, the
\* history full before it
C36_Witness ==
    /\ ad_last.kind = "update"
    /\ ad_last.elapsed < AdjustInterval * TicksPerSecond
    /\ ad_updates > HistoryCapacity
    /\ Len(load_samples) = HistoryCapacity
    /\ current_multiplier = ad_last.prev_multiplier
    /\ current_multiplier # Scale

\* the window of identifier after the first k checks of the log, had the
\* checks for the other identifiers not been made
RECURSIVE OwnWindow(_, _)
OwnWindow(identifier, k) ==
    IF k = 0 THEN <<>>
    ELSE LET e == rl_log[k]
             w == OwnWindow(identifier, k - 1)
             kept == EvictOld(w, e.at - WindowTicks)
         IN  IF e.identifier # identifier THEN w
             ELSE IF UnderLimit(Len(kept), max_requests) THEN Admitted(kept, e.at)
             ELSE kept

\* C37: in one limiter with a fixed limit, the checks for one identifier
\* change nothing for another: the window of each identifier, and the outcome
\* of each of its checks, are what they are with its own checks alone.
C37_IdentifiersIndependent ==
    \A identifier \in Identifiers :
        /\ requests[identifier] = OwnWindow(identifier, Len(rl_log))
        /\ \A k \in 1..Len(rl_log) :
              rl_log[k].identifier = identifier =>
                LET e == rl_log[k]
                    kept == EvictOld(OwnWindow(identifier, k - 1), e.at - WindowTicks)
                    allowed == UnderLimit(Len(kept), max_requests)
                IN  /\ e.before = OwnWindow(identifier, k - 1)
                    /\ e.count = Len(kept)
                    /\ e.allowed = allowed
                    /\ e.remaining = Remaining(max_requests, Len(kept), allowed)
                    /\ e.reset = ResetTime(OwnWindow(identifier, k), e.at, window_seconds)

\* two checks for one identifier with an admitted check for the other between
\* them, the second made when the other identifier has used up its limit
C37_Witness ==
    \E i, j, k \in 1..Len(rl_log) :
        /\ i < j /\ j < k
        /\ rl_log[i].identifier = rl_log[k].identifier
        /\ rl_log[j].identifier # rl_log[k].identifier
        /\ rl_log[i].allowed /\ rl_log[j].allowed /\ rl_log[k].allowed
        /\ Len(requests[rl_log[j].identifier]) = max_requests
        /\ requests[rl_log[j].identifier] # requests[rl_log[k].identifier]

====
